---- MODULE Spec2Model ----
(***************************************************************************)
(* Agent orchestration of the DIDComm AI bridge: the Concierge             *)
(* (supervisor) task, the Model Agent (worker) tasks it spawns, the        *)
(* per-owner channel state (sequence counters) behind one mutex per owner, *)
(* the inbound-message dispatch of handle_message and the streaming        *)
(* chunker handle_prompt.                                                  *)
(*                                                                         *)
(* Every task is a program position pc[t] plus its locals loc[t]; one step *)
(* is the code between two suspension points (.await).  Task 0 is the      *)
(* Concierge, tasks 1..MaxWorkers are Model Agents in spawn order.         *)
(***************************************************************************)
EXTENDS Integers, Sequences, FiniteSets, TLC

----------------------------------------------------------------------------
(* Bounds of the model *)

\* Model Agents the Concierge may spawn (StartModel commands that succeed).
MaxWorkers == 2
\* Inbound DIDComm messages the transport delivers in one behaviour.
MaxInbound == 2
\* Failures of the environment (transport, backend, storage) in one behaviour.
MaxFailures == 1
\* Ticks of the typing interval one chunker run consumes.
MaxTicks == 1
\* Messages in the queue of the mediator when a Model Agent starts.
MaxBacklog == 2

(* Program constants *)

\* tokio::time::sleep(Duration::from_secs(30))
TimeoutSecs == 30
\* interval_at(now + 3 s, 3 s)
TypingSecs == 3

----------------------------------------------------------------------------
(* Tasks, identities, locks *)

Concierge == 0
Workers == 1..MaxWorkers
\* The task that edits the configuration (run_setup_wizard).
Wizard == MaxWorkers + 1
Tasks == {Concierge} \cup Workers \cup {Wizard}
NoTask == -1

None == "none"

\* Models of the configuration; "mx" is a name the configuration lacks.
ModelNames == {"m1", "m2"}
StartNames == ModelNames \cup {"mx"}

\* The DID a model's agent listens on (OllamaModel.dids), the Concierge's DID.
AgentDid(m) == IF m = "m1" THEN "a1" ELSE "a2"
ConciergeDid == "c0"
\* A DID no profile of the worker was activated for.
ForeignDid == "dx"

\* Remote parties, and the channel DID a connection-setup may negotiate.
RemoteDids == {"p1", "p2"}
ChannelDids == {"n1"}
Dids == RemoteDids \cup ChannelDids

\* Owners of channel state: every model and the Concierge, one mutex each;
\* "models" is the mutex of the registry SharedState.models.
ConciergeOwner == "concierge"
Owners == ModelNames \cup {ConciergeOwner}
ModelsLock == "models"
Locks == Owners \cup {ModelsLock}

\* sha256::digest: a one-way, collision-free image of the DID.
digest(did) == <<"sha256", did>>

----------------------------------------------------------------------------
(* ChatChannelState and the ChannelState trait *)

\* A record that stores the hash of another DID than its own.
misfiled_channel_state(did, hash) ==
    [remote_did |-> did, remote_did_hash |-> digest(ForeignDid),
     activity_seq_no |-> 0, seq_no |-> 0]

\* ChatChannelState { remote_did, remote_did_hash, ..Default::default() }
ChatChannelState(did, hash) ==
    [remote_did |-> did, remote_did_hash |-> hash,
     activity_seq_no |-> 0, seq_no |-> 0]

\* HashMap::get(..).is_some()
has_channel_state(cs, hash) == hash \in DOMAIN cs

\* HashMap::insert: the entry under hash is replaced.
insert_channel_state(cs, hash, state) ==
    [k \in DOMAIN cs \cup {hash} |-> IF k = hash THEN state ELSE cs[k]]

\* HashMap::remove: no entry under hash afterwards.
remove_channel_state(cs, hash) ==
    [k \in DOMAIN cs \ {hash} |-> cs[k]]

EmptyMap == [k \in {} |-> 0]

----------------------------------------------------------------------------
(* Inbound DIDComm messages *)

ConnectionSetup == "connection-setup"
ChatPresence == "chat-presence"
ChatEffect == "chat-effect"
ChatMessageT == "chat-message"
ChatDelivered == "chat-delivered"
ChatActivity == "chat-activity"
ProtocolStatus == "messagepickup-status"
Unknown == "unknown"

\* Message { type_, from, to, body, attachments }.  parses: serde_json can
\* read the body as the struct its tag asks for; text: ChatMessage.text as
\* its characters, grouped ("/" is one of them); effect: ChatEffect.effect;
\* channel_did: body["channel_did"] of a connection-setup.
Msg(type, from, to, parses, text, effect, channel_did, attachments) ==
    [type |-> type, from |-> from, to |-> to, parses |-> parses, text |-> text,
     effect |-> effect, channel_did |-> channel_did, attachments |-> attachments]

NoMsg == Msg(None, None, None, FALSE, <<>>, None, None, FALSE)

Plain(type, from, to) == Msg(type, from, to, TRUE, <<>>, None, None, FALSE)
Setup(from, to, channel_did) ==
    Msg(ConnectionSetup, from, to, TRUE, <<>>, None, channel_did, FALSE)
Chat(from, to, parses, text, attachments) ==
    Msg(ChatMessageT, from, to, parses, text, None, None, attachments)
Effect(from, to, parses, effect) ==
    Msg(ChatEffect, from, to, parses, <<>>, effect, None, FALSE)

ChatTexts == {<<"hi">>, <<"/", "help">>, <<"/", "HELP">>, <<"/", "dids">>, <<"/", "x">>}

\* What the transport may deliver to a Model Agent of model m.
WorkerMsgs(m) ==
    LET a == AgentDid(m) IN
    {Plain(ty, "p1", a) : ty \in {ChatPresence, ChatDelivered, ChatActivity,
                                  ProtocolStatus, Unknown}}
    \cup {Msg(ProtocolStatus, "p1", a, FALSE, <<>>, None, None, FALSE)}
    \cup {Setup(f, a, c) : f \in RemoteDids, c \in {"n1"}}
    \cup {Setup("p1", a, c) : c \in {None, "p1"}}
    \cup {Effect("p1", a, TRUE, "balloons"), Effect("p1", a, FALSE, None)}
    \cup {Chat("p1", a, TRUE, tx, FALSE) : tx \in ChatTexts}
    \cup {Chat("p2", a, TRUE, tx, FALSE) : tx \in {<<"hi">>, <<"/", "help">>}}
    \cup {Chat("p1", a, TRUE, tx, TRUE) : tx \in {<<"hi">>, <<"/", "help">>}}
    \cup {Chat("p1", a, FALSE, <<>>, at) : at \in BOOLEAN}
    \cup {Chat(None, a, TRUE, <<"hi">>, FALSE), Setup(None, a, "n1")}
    \cup {Chat("p1", t, TRUE, <<"hi">>, FALSE) : t \in {ForeignDid, None}}

\* A command, a prompt and a handshake of one party among them.
CommandMsgs(m) == {Chat("p1", AgentDid(m), TRUE, <<"/", "help">>, FALSE)}
SharedMsgs(m) ==
    {Chat("p1", AgentDid(m), TRUE, <<"hi">>, FALSE), Setup("p1", AgentDid(m), "n1")}

\* What the transport may deliver to the Concierge.
ConciergeMsgs ==
    LET a == ConciergeDid IN
    {Plain(ty, "p1", a) : ty \in {ChatPresence, ChatDelivered, ChatActivity,
                                  ProtocolStatus, Unknown}}
    \cup {Setup(f, a, c) : f \in RemoteDids, c \in {"n1"}}
    \cup {Setup("p1", a, c) : c \in {None, "p1"}}
    \cup {Chat(f, a, TRUE, <<"hi">>, FALSE) : f \in RemoteDids}
    \cup {Plain(Unknown, None, a), Setup(None, a, "n1")}

\* A handshake and a message of an unknown type among them.
CoreConciergeMsgs ==
    {Setup("p1", ConciergeDid, "n1"), Plain(Unknown, "p1", ConciergeDid)}

----------------------------------------------------------------------------
(* Streams of the generation backend *)

\* A fragment (GenerationResponse.response) is a string, here the sequence
\* of its pieces; push_str is \o.
ThinkOpen == <<"<think>">>
ThinkEnd == <<"</think>">>
ParagraphBreak == <<"\n\n">>
SentenceBreak == <<".", "\n\n">>

\* A chunker that finds the end-marker in no fragment.
never_think_end(f) == FALSE

\* ele.response.contains("</think>")
contains_think_end(f) == \E i \in 1..Len(f) : f[i] = "</think>"

\* A stream: its items (each a Vec of responses) and how it ends:
\* "End" (None), "Err" (Some(Err)), "Pending" (never another item),
\* "Forever" (the items again and again, without an end).
Stream(items, end) == [items |-> items, end |-> end]
\* No stream opened.
NoStream == Stream(<<>>, None)

\* "<think>", "ignored", "</think>", "Hello", " world.", "\n\n", then the end.
HelloStream ==
    Stream(<< <<ThinkOpen>>, << <<"ignored">> >>, <<ThinkEnd>>, << <<"Hello">> >>,
              << <<" world.">> >>, <<ParagraphBreak>> >>, "End")

Streams ==
    { HelloStream,
      Stream(<< <<ThinkEnd, <<"Hello">> >>, <<SentenceBreak, <<"more">> >> >>, "End"),
      Stream(<< <<ThinkEnd>>, << <<"Hello">> >> >>, "Pending"),
      Stream(<< << <<"</think>", "Hi">> >>, << <<"Hello">> >> >>, "Err"),
      Stream(<< <<ThinkEnd, <<"Hi">>, <<"!", "\n\n">>, ParagraphBreak,
                 <<"there">> >> >>, "End"),
      Stream(<< >>, "End") }

\* The backend that answers every prompt with one item.
CoreStreams == {Stream(<< <<ThinkEnd, <<"Hi">> >> >>, "End")}

\* A backend that answers at once, one that never yields an item, and one
\* that yields fragments of its reasoning without end.
TimedStreams ==
    { Stream(<< <<ThinkEnd, <<"Hi">> >> >>, "End"),
      Stream(<< <<ThinkEnd>>, << <<"Hello">> >> >>, "Pending"),
      Stream(<< <<ThinkOpen>>, << <<"ignored">> >> >>, "Forever") }

----------------------------------------------------------------------------
(* State *)

VARIABLES
    pc,       \* pc[t]: where task t stands in its code
    loc,      \* loc[t]: the locals of task t
    wmodel,   \* wmodel[w]: ModelAgent.model of worker w (None before its spawn)
    chan,     \* chan[o]: channel_state of owner o, a map from did hash to record
    obs,      \* obs[o][h]: the sequence numbers handed out under chan[o][h] so far
    lock,     \* lock[l]: the task that holds mutex l, or NoTask
    models,   \* Concierge::run's registry: models[name] is the worker holding
              \* the receiver of the registered tx_channel, 0 when no entry
    wcmd,     \* wcmd[w]: Exit commands sent into to_model_channel of worker w
    taken,    \* taken[t]: inbound messages task t took from direct_rx
    acked,    \* acked[t]: delete_message_background calls task t made
    nin,      \* inbound messages delivered so far
    nfail,    \* environment failures so far
    snap,     \* the Config that SharedState::to_config has cloned so far
    config_json, \* what save() wrote to config.json, None before
    result,   \* what Concierge::run returned, None while it runs
    inbox     \* inbox[w]: messages queued at the mediator for the DID of
              \* worker w since before it started

vars == <<pc, loc, wmodel, chan, obs, lock, models, wcmd, taken, acked,
          nin, nfail, snap, config_json, result, inbox>>

\* The local seq_no before send_message has read it.
NoSeq == -1

NoLoc ==
    [msg |-> NoMsg,          \* the inbound message being handled
     queued |-> FALSE,       \* msg was queued before the task started
     model_name |-> None,    \* StartModel { model_name }
     ret |-> None,           \* where send_message / i_am_thinking returns to
     text |-> <<>>,          \* send_message's text
     to_did |-> None,        \* send_message's / i_am_thinking's to_did
     seq_no |-> NoSeq,       \* the local seq_no / activity_seq_no
     new_did |-> None,       \* what send_connection_response returned
     generated |-> NoStream,     \* the stream generate_stream returned, as a whole
     stream |-> <<>>,        \* the items the stream has still to yield
     stream_end |-> None,    \* how the stream ends
     res |-> <<>>,           \* the rest of the item the for loop is in
     think_flag |-> TRUE,
     output |-> <<>>,
     elapsed |-> 0,          \* seconds since the timers of handle_prompt started
     ticks |-> 0,            \* ticks of typing_interval consumed
     out |-> <<>>,           \* what the task sent while handling msg
     ran |-> {},             \* what ran for msg: handlers, backend, timeout arm
     handled |-> None,       \* what handle_message returned for msg
     interrupted |-> None]   \* the Interrupted the select loop broke with

Merge(r, u) == [f \in DOMAIN r |-> IF f \in DOMAIN u THEN u[f] ELSE r[f]]

\* loc' with the locals u of task t changed, pc' with t at position p.
SetLoc(t, u) == loc' = [loc EXCEPT ![t] = Merge(@, u)]
Goto(t, p) == pc' = [pc EXCEPT ![t] = p]

Owner(t) == IF t = Concierge THEN ConciergeOwner ELSE wmodel[t]
\* profile.inner.did of the profile the task handles a message with.
ProfileDid(t) == IF t = Concierge THEN ConciergeDid ELSE AgentDid(wmodel[t])

\* A task whose future was dropped: it returned or it unwound from a panic.
Dead == {"Stopped", "Failed", "Panicked"}

\* An outbound message, as handed to the transport.
Sent(kind, to, seq, text) == [kind |-> kind, to |-> to, seq_no |-> seq, text |-> text]

\* The environment fails (at most MaxFailures times) or does not.
Outcome(failed) ==
    /\ failed => nfail < MaxFailures
    /\ nfail' = IF failed THEN nfail + 1 ELSE nfail

Init ==
    /\ pc = [t \in Tasks |-> IF t = Concierge THEN "Starting" ELSE "Unborn"]
    /\ loc = [t \in Tasks |-> NoLoc]
    /\ wmodel = [w \in Workers |-> None]
    /\ chan = [o \in Owners |-> EmptyMap]
    /\ obs = [o \in Owners |-> EmptyMap]
    /\ lock = [l \in Locks |-> NoTask]
    /\ models = [n \in ModelNames |-> 0]
    /\ wcmd = [w \in Workers |-> 0]
    /\ taken = [t \in Tasks |-> 0]
    /\ acked = [t \in Tasks |-> 0]
    /\ nin = 0
    /\ nfail = 0
    /\ snap = EmptyMap
    /\ config_json = <<>>
    /\ result = None
    /\ inbox = [w \in Workers |-> 0]

----------------------------------------------------------------------------
(* tokio::sync::Mutex *)

\* A mutex that lets everybody in.
mutex_open(l) == TRUE

\* lock().await completes only while nobody holds the mutex.
mutex_free(l) == lock[l] = NoTask

\* A guard that is never dropped.
keep_lock(t, l) == lock' = lock

Acquire(t, l) == mutex_free(l) /\ lock' = [lock EXCEPT ![l] = t]
Release(t, l) == lock' = [lock EXCEPT ![l] = NoTask]

\* No sequence number handed out yet: the history of a record just inserted.
NoHistory == [seq |-> <<>>, act |-> <<>>]

----------------------------------------------------------------------------
(* send_message and i_am_thinking: shared by the Concierge and the workers *)

\* A send_message that forgets the increment.
keep_seq_no(state) == state

\* A send_message that increments both counters of the record.
incr_every_counter(state) ==
    [state EXCEPT !.seq_no = @ + 1, !.activity_seq_no = @ + 1]

\* state.seq_no += 1
incr_seq_no(state) == [state EXCEPT !.seq_no = @ + 1]
\* An i_am_thinking that forgets the increment.
keep_activity_seq_no(state) == state

\* state.activity_seq_no += 1
incr_activity_seq_no(state) == [state EXCEPT !.activity_seq_no = @ + 1]

\* A caller calls send_message(text, to_did) and resumes at ret: the first
\* thing send_message does is wait for the owner's mutex.  u: the locals the
\* caller sets with the call.
SmArgs(text, to_did, ret) == [text |-> text, to_did |-> to_did, ret |-> ret]
CallSendMessage(t, u) == Goto(t, "SmLock") /\ SetLoc(t, u)
CallIAmThinking(t, u) == Goto(t, "IatLock") /\ SetLoc(t, u)

\* channel_state.lock().await
send_message_lock(t) ==
    /\ pc[t] = "SmLock"
    /\ Acquire(t, Owner(t))
    /\ Goto(t, "SmRead")
    /\ UNCHANGED <<loc, wmodel, chan, obs, models, wcmd, taken, acked, nin,
                   nfail, snap, config_json, result, inbox>>

\* get_channel_state_mut(&digest(to_did)).unwrap(); let seq_no = state.seq_no;
\* unwrap() on None panics: the guard is dropped and the task unwinds.
send_message_read(t) ==
    LET o == Owner(t)
        h == digest(loc[t].to_did) IN
    /\ pc[t] = "SmRead"
    /\ IF has_channel_state(chan[o], h)
       THEN /\ SetLoc(t, [seq_no |-> chan[o][h].seq_no])
            /\ obs' = [obs EXCEPT ![o][h].seq = Append(@, chan[o][h].seq_no)]
            /\ Goto(t, "SmWrite")
            /\ UNCHANGED lock
       ELSE /\ Release(t, o)
            /\ Goto(t, "Panicked")
            /\ UNCHANGED <<loc, obs>>
    /\ UNCHANGED <<wmodel, chan, models, wcmd, taken, acked, nin, nfail,
                   snap, config_json, result, inbox>>

\* state.seq_no += 1; the block ends and the guard is dropped.
send_message_incr(t) ==
    LET o == Owner(t)
        h == digest(loc[t].to_did) IN
    /\ pc[t] = "SmWrite"
    /\ chan' = [chan EXCEPT ![o][h] = incr_seq_no(@)]
    /\ Release(t, o)
    /\ Goto(t, "SmSend")
    /\ UNCHANGED <<loc, wmodel, obs, models, wcmd, taken, acked, nin, nfail,
                   snap, config_json, result, inbox>>

\* A send_message that gives its number back when packing or sending fails.
send_message_rollback(t) ==
    LET o == Owner(t)
        h == digest(loc[t].to_did) IN
    /\ pc[t] = "SmSend"
    /\ \E failed \in BOOLEAN :
         /\ Outcome(failed)
         /\ SetLoc(t, [out |-> IF failed THEN loc[t].out
                               ELSE Append(loc[t].out,
                                           Sent(ChatMessageT, loc[t].to_did,
                                                loc[t].seq_no, loc[t].text)),
                       seq_no |-> NoSeq, text |-> <<>>])
         /\ chan' = IF failed /\ has_channel_state(chan[o], h)
                    THEN [chan EXCEPT ![o][h].seq_no = @ - 1] ELSE chan
    /\ Goto(t, loc[t].ret)
    /\ UNCHANGED <<wmodel, obs, lock, models, wcmd, taken, acked, nin,
                   snap, config_json, result, inbox>>

\* Message::build(.. {"text", "seqNo"}), pack_encrypted(..).await?, then
\* forward_and_send_message / send_message (..).await?: an Err of either is
\* returned, and every caller drops it (let _ =).
send_message_send(t) ==
    /\ pc[t] = "SmSend"
    /\ \E failed \in BOOLEAN :
         /\ Outcome(failed)
         /\ SetLoc(t, [out |-> IF failed THEN loc[t].out
                               ELSE Append(loc[t].out,
                                           Sent(ChatMessageT, loc[t].to_did,
                                                loc[t].seq_no, loc[t].text)),
                       seq_no |-> NoSeq, text |-> <<>>])
    /\ Goto(t, loc[t].ret)
    /\ UNCHANGED <<wmodel, chan, obs, lock, models, wcmd, taken, acked, nin,
                   snap, config_json, result, inbox>>

i_am_thinking_lock(t) ==
    /\ pc[t] = "IatLock"
    /\ Acquire(t, Owner(t))
    /\ Goto(t, "IatRead")
    /\ UNCHANGED <<loc, wmodel, chan, obs, models, wcmd, taken, acked, nin,
                   nfail, snap, config_json, result, inbox>>

\* get_channel_state_mut(&digest(to_did)).unwrap();
\* let activity_seq_no = state.activity_seq_no;
i_am_thinking_read(t) ==
    LET o == Owner(t)
        h == digest(loc[t].to_did) IN
    /\ pc[t] = "IatRead"
    /\ IF has_channel_state(chan[o], h)
       THEN /\ SetLoc(t, [seq_no |-> chan[o][h].activity_seq_no])
            /\ obs' = [obs EXCEPT ![o][h].act = Append(@, chan[o][h].activity_seq_no)]
            /\ Goto(t, "IatWrite")
            /\ UNCHANGED lock
       ELSE /\ Release(t, o)
            /\ Goto(t, "Panicked")
            /\ UNCHANGED <<loc, obs>>
    /\ UNCHANGED <<wmodel, chan, models, wcmd, taken, acked, nin, nfail,
                   snap, config_json, result, inbox>>

i_am_thinking_incr(t) ==
    LET o == Owner(t)
        h == digest(loc[t].to_did) IN
    /\ pc[t] = "IatWrite"
    /\ chan' = [chan EXCEPT ![o][h] = incr_activity_seq_no(@)]
    /\ Release(t, o)
    /\ Goto(t, "IatSend")
    /\ UNCHANGED <<loc, wmodel, obs, models, wcmd, taken, acked, nin, nfail,
                   snap, config_json, result, inbox>>

\* Message::build(.. {"activitySeqNo"}), pack_encrypted(..).await?, send.
i_am_thinking_send(t) ==
    /\ pc[t] = "IatSend"
    /\ \E failed \in BOOLEAN :
         /\ Outcome(failed)
         /\ SetLoc(t, [out |-> IF failed THEN loc[t].out
                               ELSE Append(loc[t].out,
                                           Sent(ChatActivity, loc[t].to_did,
                                                loc[t].seq_no, <<>>)),
                       seq_no |-> NoSeq])
    /\ Goto(t, loc[t].ret)
    /\ UNCHANGED <<wmodel, chan, obs, lock, models, wcmd, taken, acked, nin,
                   snap, config_json, result, inbox>>

----------------------------------------------------------------------------
(* handle_presence and send_connection_response *)

\* pack_encrypted, forward_message, send_message of the transport: the
\* message is sent, or the send fails and is logged (warn!), or packing or
\* forwarding fails and the unwrap() of its result panics.
TransportOutcomes == {"sent", "warned", "panicked"}

\* handle_presence(atm, profile, to): a chat-presence message to loc.to_did,
\* called for an inbound chat-presence ("Presence", back to loc.ret) and by
\* the typing tick of handle_prompt ("TickPresence", back to the loop).
handle_presence(t) ==
    /\ pc[t] \in {"Presence", "TickPresence"}
    /\ \E o \in TransportOutcomes :
         /\ Outcome(o # "sent")
         /\ SetLoc(t, [out |-> IF o = "sent"
                               THEN Append(loc[t].out,
                                           Sent(ChatPresence, loc[t].to_did, NoSeq, <<>>))
                               ELSE loc[t].out])
         /\ Goto(t, IF o = "panicked" THEN "Panicked"
                    ELSE IF pc[t] = "TickPresence" THEN "Loop" ELSE loc[t].ret)
    /\ UNCHANGED <<wmodel, chan, obs, lock, models, wcmd, taken, acked, nin,
                   snap, config_json, result, inbox>>

\* send_connection_response up to its first await:
\* message.body.get("channel_did").unwrap().as_str().unwrap() panics on a
\* body without the field.
channel_did_of(msg) == msg.channel_did
EnterConnectionResponse(t) ==
    IF channel_did_of(loc[t].msg) = None
    THEN Goto(t, "Panicked") /\ UNCHANGED loc
    ELSE Goto(t, "HsSend") /\ SetLoc(t, [new_did |-> channel_did_of(loc[t].msg)])

\* The connection-accepted message to message.from; Ok(new_did).
send_connection_response(t) ==
    /\ pc[t] = "HsSend"
    /\ \E o \in TransportOutcomes :
         /\ Outcome(o # "sent")
         /\ SetLoc(t, [out |-> IF o = "sent"
                               THEN Append(loc[t].out,
                                           Sent("connection-accepted", loc[t].msg.from,
                                                NoSeq, <<>>))
                               ELSE loc[t].out])
         /\ Goto(t, IF o = "panicked" THEN "Panicked" ELSE "HsLock2")
    /\ UNCHANGED <<wmodel, chan, obs, lock, models, wcmd, taken, acked, nin,
                   snap, config_json, result, inbox>>

\* A handshake that forgets to remove the record of the sender.
insert_new_channel_state(cs, from_did, new_did) ==
    insert_channel_state(cs, digest(new_did),
                         ChatChannelState(new_did, digest(new_did)))

\* The handshake's critical section: the record of the sender goes, a
\* record of the negotiated DID comes, with ..Default::default() counters.
replace_channel_state(cs, from_did, new_did) ==
    insert_channel_state(remove_channel_state(cs, digest(from_did)),
                         digest(new_did),
                         ChatChannelState(new_did, digest(new_did)))

\* The history that goes with replace_channel_state.
ReplaceHistory(hs, from_did, new_did) ==
    insert_channel_state(remove_channel_state(hs, digest(from_did)),
                         digest(new_did), NoHistory)

\* DIDCommAgent.greeting
Greeting == <<"Standard Greeting">>

----------------------------------------------------------------------------
(* ModelAgent::run *)

\* The positions of the loop over the profiles, before the select loop.
Activating == {"Starting", "ClearIn", "ClearOut", "Websocket", "Channel"}

\* self.atm.profile_add(&profile, false).await?: an Err ends run; the
\* spawned task drops it (let _ = agent.run(..)).
profile_add(w) ==
    /\ pc[w] = "Starting"
    /\ \E failed \in BOOLEAN :
         /\ Outcome(failed)
         /\ Goto(w, IF failed THEN "Failed" ELSE "ClearIn")
    /\ UNCHANGED <<loc, wmodel, chan, obs, lock, models, wcmd, taken, acked, nin,
                   snap, config_json, result, inbox>>

\* let _ = clear_inbound_messages(..).await: one fetch_messages(..).await?
\* of its loop.  A fetch deletes what it returns (FetchDeletePolicy::
\* Optimistic); an empty response ends the loop, an Err ends the function
\* with what is left in the queue, and the caller drops the Err.
clear_inbound_messages(w) ==
    /\ pc[w] = "ClearIn"
    /\ \E failed \in BOOLEAN :
         /\ Outcome(failed)
         /\ IF failed \/ inbox[w] = 0
            THEN Goto(w, "ClearOut") /\ UNCHANGED inbox
            ELSE /\ \E k \in 1..inbox[w] : inbox' = [inbox EXCEPT ![w] = @ - k]
                 /\ UNCHANGED pc
    /\ UNCHANGED <<loc, wmodel, chan, obs, lock, models, wcmd, taken, acked, nin,
                   snap, config_json, result>>

\* let _ = clear_outbound_messages(..).await: the outbox is no part of the
\* state, and the result is dropped.
clear_outbound_messages(w) ==
    /\ pc[w] = "ClearOut"
    /\ Goto(w, "Websocket")
    /\ UNCHANGED <<loc, wmodel, chan, obs, lock, models, wcmd, taken, acked, nin,
                   nfail, snap, config_json, result, inbox>>

\* self.atm.profile_enable_websocket(&model_profile).await?
profile_enable_websocket(w) ==
    /\ pc[w] = "Websocket"
    /\ \E failed \in BOOLEAN :
         /\ Outcome(failed)
         /\ Goto(w, IF failed THEN "Failed" ELSE "Channel")
    /\ UNCHANGED <<loc, wmodel, chan, obs, lock, models, wcmd, taken, acked, nin,
                   snap, config_json, result, inbox>>

\* model_profile.enable_direct_channel(direct_tx.clone()).await?; the loop
\* over the (one) profile ends and the select loop is entered.
enable_direct_channel(w) ==
    /\ pc[w] = "Channel"
    /\ \E failed \in BOOLEAN :
         /\ Outcome(failed)
         /\ Goto(w, IF failed THEN "Failed" ELSE "Select")
    /\ UNCHANGED <<loc, wmodel, chan, obs, lock, models, wcmd, taken, acked, nin,
                   snap, config_json, result, inbox>>

\* The for loop over the profiles.
ModelAgentActivate(w) ==
    \/ profile_add(w)
    \/ clear_inbound_messages(w)
    \/ clear_outbound_messages(w)
    \/ profile_enable_websocket(w)
    \/ enable_direct_channel(w)

\* A Model Agent that takes the Exit wherever it stands.
ModelAgentExitAnywhere(w) ==
    /\ pc[w] \notin {"Unborn", "Stopped", "Failed", "Panicked"}
    /\ wcmd[w] > 0
    /\ Goto(w, "Stopped")
    /\ UNCHANGED <<loc, wmodel, chan, obs, lock, models, wcmd, taken, acked, nin,
                   nfail, snap, config_json, result, inbox>>

\* Some(ModelAction::Exit) = to_model_channel.recv() => break
ModelAgentExit(w) ==
    /\ pc[w] = "Select"
    /\ wcmd[w] > 0
    /\ Goto(w, "Stopped")
    /\ UNCHANGED <<loc, wmodel, chan, obs, lock, models, wcmd, taken, acked, nin, nfail, snap, config_json, result, inbox>>

\* A Model Agent that goes on taking messages after its loop has ended.
ModelAgentRecvStopped(w, msgs) ==
    /\ pc[w] \in {"Select", "Stopped"}
    /\ nin < MaxInbound
    /\ \E m \in msgs :
         /\ loc' = [loc EXCEPT ![w] = [NoLoc EXCEPT !.msg = m]]
         /\ Goto(w, IF m.from = None THEN "Select" ELSE "LazyLock")
    /\ nin' = nin + 1
    /\ taken' = [taken EXCEPT ![w] = @ + 1]
    /\ UNCHANGED <<wmodel, chan, obs, lock, models, wcmd, acked, nfail,
                   snap, config_json, result, inbox>>

\* A Model Agent that passes on every message it takes.
ModelAgentRecvAnonymous(w, msgs) ==
    /\ pc[w] = "Select"
    /\ nin < MaxInbound
    /\ \E m \in msgs :
         /\ loc' = [loc EXCEPT ![w] = [NoLoc EXCEPT !.msg = m]]
         /\ Goto(w, "LazyLock")
    /\ nin' = nin + 1
    /\ taken' = [taken EXCEPT ![w] = @ + 1]
    /\ UNCHANGED <<wmodel, chan, obs, lock, models, wcmd, acked, nfail,
                   snap, config_json, result, inbox>>

\* Some(boxed_data) = direct_rx.recv(): a message without from is skipped
\* (continue), any other goes on to the lazy creation of its channel state.
ModelAgentRecv(w, msgs) ==
    /\ pc[w] = "Select"
    /\ nin < MaxInbound
    /\ \E m \in msgs :
         /\ loc' = [loc EXCEPT ![w] = IF m.from = None THEN NoLoc
                                      ELSE [NoLoc EXCEPT !.msg = m]]
         /\ Goto(w, IF m.from = None THEN "Select" ELSE "LazyLock")
    /\ nin' = nin + 1
    /\ taken' = [taken EXCEPT ![w] = @ + 1]
    /\ UNCHANGED <<wmodel, chan, obs, lock, models, wcmd, acked, nfail,
                   snap, config_json, result, inbox>>

\* Some(boxed_data) = direct_rx.recv() of a message that was in the queue
\* of the mediator before the task started and is still there: once the
\* profile is live the transport delivers it like any other.
ModelAgentRecvQueued(w, msgs) ==
    /\ pc[w] = "Select"
    /\ inbox[w] > 0
    /\ \E m \in msgs :
         /\ loc' = [loc EXCEPT ![w] = IF m.from = None THEN NoLoc
                                      ELSE [NoLoc EXCEPT !.msg = m, !.queued = TRUE]]
         /\ Goto(w, IF m.from = None THEN "Select" ELSE "LazyLock")
    /\ inbox' = [inbox EXCEPT ![w] = @ - 1]
    /\ taken' = [taken EXCEPT ![w] = @ + 1]
    /\ UNCHANGED <<wmodel, chan, obs, lock, models, wcmd, acked, nin, nfail,
                   snap, config_json, result>>

\* self.model.lock().await
ModelAgentLazyLock(w) ==
    /\ pc[w] = "LazyLock"
    /\ Acquire(w, Owner(w))
    /\ Goto(w, "LazyCS")
    /\ UNCHANGED <<loc, wmodel, chan, obs, models, wcmd, taken, acked, nin,
                   nfail, snap, config_json, result, inbox>>

\* A lazy creation that makes a new record for every message.
fresh_channel_state(cs, from_did) ==
    insert_channel_state(cs, digest(from_did),
                         ChatChannelState(from_did, digest(from_did)))

\* if channel_state.get_mut(&from_did_hash).is_none() { insert(..) }
lazy_channel_state(cs, from_did) ==
    IF has_channel_state(cs, digest(from_did)) THEN cs
    ELSE insert_channel_state(cs, digest(from_did),
                              ChatChannelState(from_did, digest(from_did)))

LazyHistory(hs, from_did) ==
    IF has_channel_state(hs, digest(from_did)) THEN hs
    ELSE insert_channel_state(hs, digest(from_did), NoHistory)

\* chat_effect.effect to the prompt handle_chat_effect passes on.
effect_prompt(effect) ==
    IF effect = "balloons" THEN <<"I give you a balloon">>
    ELSE IF effect = "confetti" THEN <<"Let's celebrate">>
    ELSE <<"I don't know what to do with this">>

\* A handle_message that answers whatever it gets.
EnterHandleMessageReply(w) ==
    CallSendMessage(w, SmArgs(<<"ok">>, loc[w].msg.from, "Ack") @@ [handled |-> "Ok"])

\* handle_message up to its first await, by the type of the message.
EnterHandleMessage(w) ==
    LET m == loc[w].msg IN
    CASE m.type = ProtocolStatus ->
           /\ Goto(w, "Ack")
           /\ SetLoc(w, [handled |-> IF m.parses THEN "Ok" ELSE "Err"])
      [] m.type = ConnectionSetup ->
           /\ Goto(w, "HsLock1")
           /\ UNCHANGED loc
      [] m.type = ChatPresence ->
           /\ Goto(w, "Presence")
           /\ SetLoc(w, [to_did |-> m.from, ret |-> "Ack", handled |-> "Ok"])
      [] m.type = ChatEffect ->
           IF m.parses
           THEN /\ Goto(w, "HpLock")
                /\ SetLoc(w, [text |-> effect_prompt(m.effect), to_did |-> m.from,
                              ran |-> {"handle_prompt"}, handled |-> "Ok"])
           ELSE /\ Goto(w, "Ack")
                /\ SetLoc(w, [handled |-> "Ok"])
      [] m.type = ChatMessageT ->
           /\ Goto(w, "Receipt")
           /\ UNCHANGED loc
      [] OTHER ->
           /\ Goto(w, "Ack")
           /\ SetLoc(w, [handled |-> "Ok"])

\* A Model Agent that dispatches whatever DID the message is addressed to.
ModelAgentLazyAnyDid(w) ==
    LET o == Owner(w)
        m == loc[w].msg IN
    /\ pc[w] = "LazyCS"
    /\ chan' = [chan EXCEPT ![o] = lazy_channel_state(@, m.from)]
    /\ obs' = [obs EXCEPT ![o] = LazyHistory(@, m.from)]
    /\ Release(w, o)
    /\ IF m.to = None
       THEN Goto(w, "Panicked") /\ UNCHANGED loc
       ELSE EnterHandleMessage(w)
    /\ UNCHANGED <<wmodel, models, wcmd, taken, acked, nin, nfail, snap,
                   config_json, result, inbox>>

\* The critical section of the lazy creation, then
\* message.to.as_ref().unwrap().first().unwrap() (a panic without a to),
\* activated_profiles.get(&to_did) (continue when None), handle_message.
ModelAgentLazy(w) ==
    LET o == Owner(w)
        m == loc[w].msg IN
    /\ pc[w] = "LazyCS"
    /\ chan' = [chan EXCEPT ![o] = lazy_channel_state(@, m.from)]
    /\ obs' = [obs EXCEPT ![o] = LazyHistory(@, m.from)]
    /\ Release(w, o)
    /\ IF m.to = None
       THEN Goto(w, "Panicked") /\ UNCHANGED loc
       ELSE IF m.to # ProfileDid(w)
       THEN Goto(w, "Select") /\ loc' = [loc EXCEPT ![w] = NoLoc]
       ELSE EnterHandleMessage(w)
    /\ UNCHANGED <<wmodel, models, wcmd, taken, acked, nin, nfail, snap,
                   config_json, result, inbox>>

\* let _ = handle_message(..).await; delete_message_background(..).await
\* (its Err dropped), and back to the select.
ModelAgentAck(w) ==
    /\ pc[w] = "Ack"
    /\ \E failed \in BOOLEAN : Outcome(failed)
    /\ acked' = [acked EXCEPT ![w] = @ + 1]
    /\ loc' = [loc EXCEPT ![w] = NoLoc]
    /\ Goto(w, "Select")
    /\ UNCHANGED <<wmodel, chan, obs, lock, models, wcmd, taken, nin, snap,
                   config_json, result, inbox>>

----------------------------------------------------------------------------
(* handle_message: the connection-setup and the chat-message arms *)

\* let lock = model.lock().await (to clone the DIDCommAgent of the profile)
handle_message_agent_lock(w) ==
    /\ pc[w] = "HsLock1"
    /\ Acquire(w, Owner(w))
    /\ Goto(w, "HsCS1")
    /\ UNCHANGED <<loc, wmodel, chan, obs, models, wcmd, taken, acked, nin,
                   nfail, snap, config_json, result, inbox>>

\* did_agent.clone(), the guard dropped, send_connection_response entered.
handle_message_agent(w) ==
    /\ pc[w] = "HsCS1"
    /\ Release(w, Owner(w))
    /\ EnterConnectionResponse(w)
    /\ UNCHANGED <<wmodel, chan, obs, models, wcmd, taken, acked, nin,
                   nfail, snap, config_json, result, inbox>>

\* let mut lock = model.lock().await (in a worker), and
\* let mut lock = concierge_state.lock().await (in the Concierge)
handshake_lock(t) ==
    /\ pc[t] = "HsLock2"
    /\ Acquire(t, Owner(t))
    /\ Goto(t, "HsCS2")
    /\ UNCHANGED <<loc, wmodel, chan, obs, models, wcmd, taken, acked, nin,
                   nfail, snap, config_json, result, inbox>>

\* remove_channel_state(&from_did_hash); insert_channel_state(&new_did_hash, ..);
\* the guard dropped; send_message(greeting, &new_did) called.
handle_message_replace(w) ==
    LET o == Owner(w) IN
    /\ pc[w] = "HsCS2"
    /\ w \in Workers
    /\ chan' = [chan EXCEPT ![o] = replace_channel_state(@, loc[w].msg.from, loc[w].new_did)]
    /\ obs' = [obs EXCEPT ![o] = ReplaceHistory(@, loc[w].msg.from, loc[w].new_did)]
    /\ Release(w, o)
    /\ CallSendMessage(w, SmArgs(Greeting, loc[w].new_did, "Ack") @@ [handled |-> "Ok"])
    /\ UNCHANGED <<wmodel, models, wcmd, taken, acked, nin, nfail, snap,
                   config_json, result, inbox>>

\* A handle_message that finds the prefix nowhere.
never_slash(text) == FALSE

\* chat_message.text.starts_with("/")
starts_with_slash(text) == Len(text) > 0 /\ text[1] = "/"

\* str::to_lowercase, piece by piece
LowerPiece(s) == IF s = "HELP" THEN "help" ELSE IF s = "DIDS" THEN "dids" ELSE s
to_lowercase(text) == [i \in 1..Len(text) |-> LowerPiece(text[i])]

\* The response handle_command sends.
command_response(text, agent_did, remote_did) ==
    IF to_lowercase(text) = <<"/", "help">> THEN <<"Help:">>
    ELSE IF to_lowercase(text) = <<"/", "dids">>
         THEN <<"DIDs:", "Agent: ", agent_did, "Client: ", remote_did>>
    ELSE <<"ERROR: unknown command: ">> \o text \o <<"Use /help to show commands">>

AttachmentsReply ==
    <<"Unfortunately I can't handle attachments yet.. Hopefully one day I will be able to!">>

\* A handle_message that sees no attachments.
no_attachments(m) == FALSE

\* message.attachments.is_some()
has_attachments(m) == m.attachments

\* A handle_message that acknowledges only what it can parse.
handle_message_chat_parsed(w) ==
    LET m == loc[w].msg IN
    /\ pc[w] = "Receipt"
    /\ \E failed \in BOOLEAN :
         LET out1 == IF failed \/ ~m.parses THEN loc[w].out
                     ELSE Append(loc[w].out, Sent(ChatDelivered, m.from, NoSeq, <<>>)) IN
         /\ Outcome(failed)
         /\ IF ~m.parses
            THEN /\ Goto(w, "Ack")
                 /\ SetLoc(w, [out |-> out1, handled |-> "Err"])
            ELSE IF has_attachments(m)
            THEN CallSendMessage(w, SmArgs(AttachmentsReply, m.from, "Ack")
                                    @@ [out |-> out1, handled |-> "Ok"])
            ELSE IF starts_with_slash(m.text)
            THEN CallSendMessage(w, SmArgs(command_response(m.text, ProfileDid(w), m.from),
                                           m.from, "Ack")
                                    @@ [out |-> out1, handled |-> "Ok",
                                        ran |-> {"handle_command"}])
            ELSE /\ Goto(w, "HpLock")
                 /\ SetLoc(w, [out |-> out1, handled |-> "Ok", text |-> m.text,
                               to_did |-> m.from, ran |-> {"handle_prompt"}])
    /\ UNCHANGED <<wmodel, chan, obs, lock, models, wcmd, taken, acked, nin,
                   snap, config_json, result, inbox>>

\* let _ = ack_message(..).await: the chat-delivered receipt to from, sent or
\* not; then the body is parsed and the message goes to the attachments
\* reply, to handle_command or to handle_prompt.
handle_message_chat(w) ==
    LET m == loc[w].msg IN
    /\ pc[w] = "Receipt"
    /\ \E failed \in BOOLEAN :
         LET out1 == IF failed THEN loc[w].out
                     ELSE Append(loc[w].out, Sent(ChatDelivered, m.from, NoSeq, <<>>)) IN
         /\ Outcome(failed)
         /\ IF ~m.parses
            THEN /\ Goto(w, "Ack")
                 /\ SetLoc(w, [out |-> out1, handled |-> "Err"])
            ELSE IF has_attachments(m)
            THEN CallSendMessage(w, SmArgs(AttachmentsReply, m.from, "Ack")
                                    @@ [out |-> out1, handled |-> "Ok"])
            ELSE IF starts_with_slash(m.text)
            THEN CallSendMessage(w, SmArgs(command_response(m.text, ProfileDid(w), m.from),
                                           m.from, "Ack")
                                    @@ [out |-> out1, handled |-> "Ok",
                                        ran |-> {"handle_command"}])
            ELSE /\ Goto(w, "HpLock")
                 /\ SetLoc(w, [out |-> out1, handled |-> "Ok", text |-> m.text,
                               to_did |-> m.from, ran |-> {"handle_prompt"}])
    /\ UNCHANGED <<wmodel, chan, obs, lock, models, wcmd, taken, acked, nin,
                   snap, config_json, result, inbox>>

----------------------------------------------------------------------------
(* handle_prompt: the chunker *)

TimeoutText == <<"Timeout: I'm sorry, I'm taking too long to respond">>

\* let lock = model.lock().await
handle_prompt_lock(w) ==
    /\ pc[w] = "HpLock"
    /\ Acquire(w, Owner(w))
    /\ Goto(w, "HpCS")
    /\ UNCHANGED <<loc, wmodel, chan, obs, models, wcmd, taken, acked, nin,
                   nfail, snap, config_json, result, inbox>>

\* (ollama_host, ollama_port, model_name) cloned, the guard dropped.
handle_prompt_config(w) ==
    /\ pc[w] = "HpCS"
    /\ Release(w, Owner(w))
    /\ Goto(w, "HpGen")
    /\ UNCHANGED <<loc, wmodel, chan, obs, models, wcmd, taken, acked, nin,
                   nfail, snap, config_json, result, inbox>>

\* generate_stream(..).await.unwrap(): a panic when the backend cannot be
\* reached.  stdout.write_all(..).await?, stdout.flush().await?: an Err ends
\* handle_prompt.  Then think_flag = true, output empty, the two timers
\* started, and the first i_am_thinking.  streams: what the backend may answer.
handle_prompt_open(w, streams) ==
    /\ pc[w] = "HpGen"
    /\ \E o \in {"ok", "unreachable", "stdout"} :
         /\ Outcome(o # "ok")
         /\ IF o = "unreachable"
            THEN Goto(w, "Panicked") /\ UNCHANGED loc
            ELSE IF o = "stdout"
            THEN Goto(w, "Ack") /\ UNCHANGED loc
            ELSE \E s \in streams :
                   CallIAmThinking(w,
                     [ret |-> "Loop", generated |-> s,
                      stream |-> s.items, stream_end |-> s.end,
                      res |-> <<>>, think_flag |-> TRUE, output |-> <<>>,
                      elapsed |-> 0, ticks |-> 0,
                      ran |-> loc[w].ran \cup {"generate_stream"}])
    /\ UNCHANGED <<wmodel, chan, obs, lock, models, wcmd, taken, acked, nin,
                   snap, config_json, result, inbox>>

\* Time passes while the task waits in the select, up to the next deadline
\* that enables a branch: a tick of typing_interval among the first MaxTicks,
\* the timeout after them.
next_deadline(elapsed) ==
    IF elapsed < MaxTicks * TypingSecs THEN elapsed + TypingSecs ELSE TimeoutSecs
handle_prompt_elapse(w) ==
    /\ pc[w] = "Loop"
    /\ loc[w].elapsed < TimeoutSecs
    /\ SetLoc(w, [elapsed |-> next_deadline(loc[w].elapsed)])
    /\ UNCHANGED <<pc, wmodel, chan, obs, lock, models, wcmd, taken, acked, nin, nfail, snap, config_json, result, inbox>>

\* A timeout that never fires.
timeout_never(elapsed) == FALSE

\* _ = &mut timeout => { send_message("Timeout: ..").await; break; }
timeout_ready(elapsed) == elapsed >= TimeoutSecs
handle_prompt_timeout(w) ==
    /\ pc[w] = "Loop"
    /\ timeout_ready(loc[w].elapsed)
    /\ CallSendMessage(w, SmArgs(TimeoutText, loc[w].to_did, "Flush")
                          @@ [ran |-> loc[w].ran \cup {"timeout"}])
    /\ UNCHANGED <<wmodel, chan, obs, lock, models, wcmd, taken, acked, nin,
                   nfail, snap, config_json, result, inbox>>

\* _ = typing_interval.tick() => { i_am_thinking; handle_presence }
tick_ready(elapsed, ticks) == (ticks + 1) * TypingSecs <= elapsed
handle_prompt_tick(w) ==
    /\ pc[w] = "Loop"
    /\ loc[w].ticks < MaxTicks
    /\ tick_ready(loc[w].elapsed, loc[w].ticks)
    /\ CallIAmThinking(w, [ret |-> "TickPresence", ticks |-> loc[w].ticks + 1])
    /\ UNCHANGED <<wmodel, chan, obs, lock, models, wcmd, taken, acked, nin,
                   nfail, snap, config_json, result, inbox>>

\* token = stream.next(): Some(Ok(res)) enters the for loop over res,
\* Some(Err(_)) and None break.  A pending stream yields nothing.
handle_prompt_next(w) ==
    /\ pc[w] = "Loop"
    /\ IF loc[w].stream # <<>>
       THEN /\ Goto(w, "Res")
            /\ SetLoc(w, [res |-> Head(loc[w].stream), stream |-> Tail(loc[w].stream)])
       ELSE IF loc[w].stream_end = "Forever"
       THEN /\ Goto(w, "Res")
            /\ SetLoc(w, [res |-> Head(loc[w].generated.items),
                          stream |-> Tail(loc[w].generated.items)])
       ELSE /\ loc[w].stream_end \in {"End", "Err"}
            /\ Goto(w, "Flush")
            /\ UNCHANGED loc
    /\ UNCHANGED <<wmodel, chan, obs, lock, models, wcmd, taken, acked, nin,
                   nfail, snap, config_json, result, inbox>>

\* A chunker that sends every visible fragment as it comes.
RECURSIVE send_each_ele(_, _, _)
send_each_ele(res, think_flag, output) ==
    IF res = <<>>
    THEN [res |-> <<>>, think_flag |-> think_flag, output |-> output,
          send |-> FALSE, text |-> <<>>]
    ELSE IF think_flag
    THEN send_each_ele(Tail(res), think_flag /\ ~contains_think_end(Head(res)), output)
    ELSE [res |-> Tail(res), think_flag |-> think_flag, output |-> <<>>,
          send |-> TRUE, text |-> output \o Head(res)]

\* A flush that sends nothing.
skip_flush(w) ==
    /\ pc[w] = "Flush"
    /\ Goto(w, "Ack")
    /\ UNCHANGED <<loc, wmodel, chan, obs, lock, models, wcmd, taken, acked, nin,
                   nfail, snap, config_json, result, inbox>>

\* A chunker that drops every fragment.
drop_ele(res, think_flag, output) ==
    [res |-> <<>>, think_flag |-> think_flag, output |-> output,
     send |-> FALSE, text |-> <<>>]

\* The for loop over res from its current element up to the next
\* send_message (send = TRUE, text what is sent) or to its end.
RECURSIVE for_ele(_, _, _)
for_ele(res, think_flag, output) ==
    IF res = <<>>
    THEN [res |-> <<>>, think_flag |-> think_flag, output |-> output,
          send |-> FALSE, text |-> <<>>]
    ELSE LET ele == Head(res) IN
         IF ~think_flag /\ ele = ParagraphBreak
         THEN for_ele(Tail(res), think_flag, output)
         ELSE IF ~think_flag /\ ele = SentenceBreak
         THEN [res |-> Tail(res), think_flag |-> think_flag, output |-> <<>>,
               send |-> TRUE, text |-> output \o ele]
         ELSE for_ele(Tail(res),
                      think_flag /\ ~contains_think_end(ele),
                      IF think_flag THEN output ELSE output \o ele)

\* The elements of res that reach stdout.flush().await? at the end of the
\* loop body (the two breaks continue before it).
reaches_flush(res, think_flag) ==
    /\ res # <<>>
    /\ (think_flag \/ Head(res) \notin {ParagraphBreak, SentenceBreak})

\* An Err of stdout.flush() ends handle_prompt at once, without the final send.
handle_prompt_for(w) ==
    LET r == for_ele(loc[w].res, loc[w].think_flag, loc[w].output)
        u == [res |-> r.res, think_flag |-> r.think_flag, output |-> r.output] IN
    /\ pc[w] = "Res"
    /\ \E failed \in BOOLEAN :
         /\ failed => reaches_flush(loc[w].res, loc[w].think_flag)
         /\ Outcome(failed)
         /\ IF failed
            THEN Goto(w, "Ack") /\ UNCHANGED loc
            ELSE IF r.send
            THEN CallSendMessage(w, SmArgs(r.text, loc[w].to_did, "Res") @@ u)
            ELSE Goto(w, "Loop") /\ SetLoc(w, u)
    /\ UNCHANGED <<wmodel, chan, obs, lock, models, wcmd, taken, acked, nin,
                   snap, config_json, result, inbox>>

\* After the loop: let _ = send_message(&output).await; Ok(()).  The stream
\* and the timers are not used again.
handle_prompt_flush(w) ==
    /\ pc[w] = "Flush"
    /\ CallSendMessage(w, SmArgs(loc[w].output, loc[w].to_did, "Ack")
                          @@ [stream |-> <<>>, stream_end |-> None, res |-> <<>>,
                              think_flag |-> TRUE, elapsed |-> 0, ticks |-> 0])
    /\ UNCHANGED <<wmodel, chan, obs, lock, models, wcmd, taken, acked, nin,
                   nfail, snap, config_json, result, inbox>>

----------------------------------------------------------------------------
(* Concierge::run *)

\* What the host may broadcast (Exit broadcasts UserInt itself).
Interrupts == {"OsSigInt", "SystemError"}

DefaultReply == <<"I am an unintelligent response from a very intelligent concierge">>

\* profile_add(..).await?, the two clears, profile_enable_websocket(..).await?,
\* enable_direct_channel(..).await?: an Err ends run before the loop.
ConciergeStart ==
    /\ pc[Concierge] = "Starting"
    /\ \E failed \in BOOLEAN :
         /\ Outcome(failed)
         /\ Goto(Concierge, IF failed THEN "Stopped" ELSE "Select")
         /\ result' = IF failed THEN "Err" ELSE result
    /\ UNCHANGED <<loc, wmodel, chan, obs, lock, models, wcmd, taken, acked, nin, snap, config_json, inbox>>

\* ConciergeMessage::Exit => { terminator.terminate(UserInt); break UserInt }
ConciergeExit ==
    /\ pc[Concierge] = "Select"
    /\ Goto(Concierge, "Cleanup")
    /\ SetLoc(Concierge, [interrupted |-> "UserInt"])
    /\ UNCHANGED <<wmodel, chan, obs, lock, models, wcmd, taken, acked, nin, nfail,
                   snap, config_json, result, inbox>>

\* An interrupt that skips the cleanup loop.
ConciergeInterruptNoCleanup ==
    /\ pc[Concierge] = "Select"
    /\ \E i \in Interrupts : SetLoc(Concierge, [interrupted |-> i])
    /\ Goto(Concierge, "SaveModels")
    /\ UNCHANGED <<wmodel, chan, obs, lock, models, wcmd, taken, acked, nin,
                   nfail, snap, config_json, result, inbox>>

\* Ok(interrupted) = interrupt_rx.recv() => break interrupted
ConciergeInterrupt ==
    /\ pc[Concierge] = "Select"
    /\ \E i \in Interrupts : SetLoc(Concierge, [interrupted |-> i])
    /\ Goto(Concierge, "Cleanup")
    /\ UNCHANGED <<wmodel, chan, obs, lock, models, wcmd, taken, acked, nin,
                   nfail, snap, config_json, result, inbox>>

\* The workers spawned so far.
Spawned == {w \in Workers : pc[w] # "Unborn"}

\* ConciergeMessage::StartModel { model_name }: the registry mutex is
\* awaited first.
ConciergeStartModel ==
    /\ pc[Concierge] = "Select"
    /\ \E n \in StartNames :
         /\ n \in ModelNames => Cardinality(Spawned) < MaxWorkers
         /\ SetLoc(Concierge, [model_name |-> n])
    /\ Goto(Concierge, "StartLock")
    /\ UNCHANGED <<wmodel, chan, obs, lock, models, wcmd, taken, acked, nin, nfail,
                   snap, config_json, result, inbox>>

\* let lock = self.shared_state.models.lock().await
ConciergeStartLock ==
    /\ pc[Concierge] = "StartLock"
    /\ Acquire(Concierge, ModelsLock)
    /\ Goto(Concierge, "StartCS")
    /\ UNCHANGED <<loc, wmodel, chan, obs, models, wcmd, taken, acked, nin,
                   nfail, snap, config_json, result, inbox>>

\* A lookup that finds every name.
ConciergeLookupAny ==
    /\ pc[Concierge] = "StartCS"
    /\ Release(Concierge, ModelsLock)
    /\ Goto(Concierge, "Profiles")
    /\ UNCHANGED <<loc, wmodel, chan, obs, models, wcmd, taken, acked, nin, nfail,
                   snap, config_json, result, inbox>>

\* lock.get(&model_name): None => continue, Some => the model cloned.
ConciergeLookup ==
    /\ pc[Concierge] = "StartCS"
    /\ Release(Concierge, ModelsLock)
    /\ IF loc[Concierge].model_name \in ModelNames
       THEN Goto(Concierge, "Profiles") /\ UNCHANGED loc
       ELSE Goto(Concierge, "Select") /\ loc' = [loc EXCEPT ![Concierge] = NoLoc]
    /\ UNCHANGED <<wmodel, chan, obs, models, wcmd, taken, acked, nin, nfail,
                   snap, config_json, result, inbox>>

\* create_model_profiles(..).await? (an Err is returned from run at once);
\* ModelAgent::new, start (tokio::spawn of run), models.insert(name, tx).
ConciergeSpawn ==
    LET n == loc[Concierge].model_name
        w == CHOOSE x \in Workers \ Spawned : \A y \in Workers \ Spawned : x <= y IN
    /\ pc[Concierge] = "Profiles"
    /\ \E failed \in BOOLEAN :
         /\ Outcome(failed)
         /\ IF failed
            THEN /\ Goto(Concierge, "Stopped")
                 /\ result' = "Err"
                 /\ UNCHANGED <<wmodel, models>>
            ELSE /\ pc' = [pc EXCEPT ![Concierge] = "Select", ![w] = "Starting"]
                 /\ wmodel' = [wmodel EXCEPT ![w] = n]
                 /\ models' = [models EXCEPT ![n] = w]
                 /\ UNCHANGED result
    /\ loc' = [loc EXCEPT ![Concierge] = NoLoc]
    /\ UNCHANGED <<chan, obs, lock, wcmd, taken, acked, nin, snap, config_json, inbox>>


\* Some(boxed_data) = direct_rx.recv(): delete_message_background first (its
\* Err dropped), then a message without from is skipped (continue).
ConciergeRecv(msgs) ==
    /\ pc[Concierge] = "Select"
    /\ nin < MaxInbound
    /\ \E m \in msgs :
         /\ loc' = [loc EXCEPT ![Concierge] = IF m.from = None THEN NoLoc
                                              ELSE [NoLoc EXCEPT !.msg = m]]
         /\ Goto(Concierge, IF m.from = None THEN "Select" ELSE "LazyLock")
    /\ \E failed \in BOOLEAN : Outcome(failed)
    /\ nin' = nin + 1
    /\ taken' = [taken EXCEPT ![Concierge] = @ + 1]
    /\ acked' = [acked EXCEPT ![Concierge] = @ + 1]
    /\ UNCHANGED <<wmodel, chan, obs, lock, models, wcmd, snap, config_json,
                   result, inbox>>

\* let mut concierge_state = concierge_state.lock().await
ConciergeLazyLock ==
    /\ pc[Concierge] = "LazyLock"
    /\ Acquire(Concierge, ConciergeOwner)
    /\ Goto(Concierge, "LazyCS")
    /\ UNCHANGED <<loc, wmodel, chan, obs, models, wcmd, taken, acked, nin,
                   nfail, snap, config_json, result, inbox>>

\* The lazy creation, the guard dropped, then the if / else if chain over
\* message.type_ up to the first await of the arm taken.
ConciergeLazy ==
    LET m == loc[Concierge].msg IN
    /\ pc[Concierge] = "LazyCS"
    /\ chan' = [chan EXCEPT ![ConciergeOwner] = lazy_channel_state(@, m.from)]
    /\ obs' = [obs EXCEPT ![ConciergeOwner] = LazyHistory(@, m.from)]
    /\ Release(Concierge, ConciergeOwner)
    /\ CASE m.type = ConnectionSetup -> EnterConnectionResponse(Concierge)
         [] m.type = ChatPresence ->
              /\ Goto(Concierge, "Presence")
              /\ SetLoc(Concierge, [to_did |-> m.from, ret |-> "Done"])
         [] m.type \in {ChatDelivered, ChatActivity, ProtocolStatus} ->
              /\ Goto(Concierge, "Done")
              /\ UNCHANGED loc
         [] OTHER -> CallSendMessage(Concierge, SmArgs(DefaultReply, m.from, "Done"))
    /\ UNCHANGED <<wmodel, models, wcmd, taken, acked, nin, nfail, snap,
                   config_json, result, inbox>>

\* The handshake's critical section in the Concierge, then
\* send_message(greeting, &new_did, &concierge_state).
ConciergeReplace ==
    /\ pc[Concierge] = "HsCS2"
    /\ chan' = [chan EXCEPT ![ConciergeOwner] =
                  replace_channel_state(@, loc[Concierge].msg.from, loc[Concierge].new_did)]
    /\ obs' = [obs EXCEPT ![ConciergeOwner] =
                 ReplaceHistory(@, loc[Concierge].msg.from, loc[Concierge].new_did)]
    /\ Release(Concierge, ConciergeOwner)
    /\ CallSendMessage(Concierge, SmArgs(Greeting, loc[Concierge].new_did, "Done"))
    /\ UNCHANGED <<wmodel, models, wcmd, taken, acked, nin, nfail, snap,
                   config_json, result, inbox>>

\* The arm is through: back to the select.
ConciergeDone ==
    /\ pc[Concierge] = "Done"
    /\ loc' = [loc EXCEPT ![Concierge] = NoLoc]
    /\ Goto(Concierge, "Select")
    /\ UNCHANGED <<wmodel, chan, obs, lock, models, wcmd, taken, acked, nin,
                   nfail, snap, config_json, result, inbox>>

\* A cleanup that sends nothing.
send_nothing(q, w) == q

\* UnboundedSender::send: the command is queued unless the receiver is gone.
send_exit(q, w) == IF pc[w] \in Dead THEN q ELSE q + 1

\* for (model_name, model) in models { let _ = model.tx_channel.send(Exit) }
ConciergeCleanup ==
    /\ pc[Concierge] = "Cleanup"
    /\ wcmd' = [w \in Workers |->
                  IF \E n \in ModelNames : models[n] = w
                  THEN send_exit(wcmd[w], w) ELSE wcmd[w]]
    /\ Goto(Concierge, "SaveModels")
    /\ UNCHANGED <<loc, wmodel, chan, obs, lock, models, taken, acked, nin,
                   nfail, snap, config_json, result, inbox>>

\* to_config: let models = { self.models.lock().await.clone() };
ConciergeSaveModels ==
    /\ pc[Concierge] = "SaveModels"
    /\ mutex_free(ModelsLock)
    /\ Goto(Concierge, "SaveModel")
    /\ UNCHANGED <<loc, wmodel, chan, obs, lock, models, wcmd, taken, acked, nin, nfail, snap, config_json, result, inbox>>

\* to_config: new_models.insert(name, model.lock().await.clone()), in the
\* order the HashMap yields the models; then self.concierge.lock().await.clone().
ConciergeSaveModel ==
    /\ pc[Concierge] = "SaveModel"
    /\ IF ModelNames \subseteq DOMAIN snap
       THEN /\ mutex_free(ConciergeOwner)
            /\ snap' = insert_channel_state(snap, ConciergeOwner, chan[ConciergeOwner])
            /\ Goto(Concierge, "Write")
       ELSE /\ \E n \in ModelNames \ DOMAIN snap :
                 /\ mutex_free(n)
                 /\ snap' = insert_channel_state(snap, n, chan[n])
            /\ UNCHANGED pc
    /\ UNCHANGED <<loc, wmodel, chan, obs, lock, models, wcmd, taken, acked, nin, nfail, config_json, result, inbox>>

\* fs::write(config_file, contents): its Err is what run returns (save(..)?),
\* otherwise Ok(result).
ConciergeWrite ==
    /\ pc[Concierge] = "Write"
    /\ \E failed \in BOOLEAN :
         /\ Outcome(failed)
         /\ config_json' = IF failed THEN config_json ELSE <<snap>>
         /\ result' = IF failed THEN "Err" ELSE loc[Concierge].interrupted
    /\ Goto(Concierge, "Stopped")
    /\ UNCHANGED <<loc, wmodel, chan, obs, lock, models, wcmd, taken, acked, nin, snap, inbox>>

----------------------------------------------------------------------------
(* SharedState::add_model and SharedState::remove_model *)

\* config.add_model(name, OllamaModel::new(..)): the registry mutex is awaited.
add_model ==
    /\ pc[Wizard] = "Config"
    /\ \E n \in StartNames : SetLoc(Wizard, [model_name |-> n])
    /\ Goto(Wizard, "AddLock")
    /\ UNCHANGED <<wmodel, chan, obs, lock, models, wcmd, taken, acked, nin, nfail,
                   snap, config_json, result, inbox>>

\* self.models.lock().await.insert(name, Arc::new(Mutex::new(model))): the
\* guard is a temporary of the statement, taken and dropped without an await
\* in between.
add_model_insert ==
    /\ pc[Wizard] = "AddLock"
    /\ mutex_free(ModelsLock)
    /\ Goto(Wizard, "Config")
    /\ loc' = [loc EXCEPT ![Wizard] = NoLoc]
    /\ UNCHANGED <<wmodel, chan, obs, lock, models, wcmd, taken, acked, nin, nfail,
                   snap, config_json, result, inbox>>

\* config.remove_model(name): the registry mutex is awaited.
remove_model ==
    /\ pc[Wizard] = "Config"
    /\ \E n \in StartNames : SetLoc(Wizard, [model_name |-> n])
    /\ Goto(Wizard, "RemoveLock")
    /\ UNCHANGED <<wmodel, chan, obs, lock, models, wcmd, taken, acked, nin, nfail,
                   snap, config_json, result, inbox>>

\* if let Some(model) = self.models.lock().await.remove(model_name): the
\* guard of the registry is a temporary of the scrutinee and lives to the end
\* of the if let; with Some the mutex of the model is awaited under it, with
\* None the guard is dropped at once.
remove_model_remove ==
    /\ pc[Wizard] = "RemoveLock"
    /\ IF loc[Wizard].model_name \in ModelNames
       THEN /\ Acquire(Wizard, ModelsLock)
            /\ Goto(Wizard, "RemoveModelLock")
            /\ UNCHANGED loc
       ELSE /\ mutex_free(ModelsLock)
            /\ Goto(Wizard, "Config")
            /\ loc' = [loc EXCEPT ![Wizard] = NoLoc]
            /\ UNCHANGED lock
    /\ UNCHANGED <<wmodel, chan, obs, models, wcmd, taken, acked, nin, nfail,
                   snap, config_json, result, inbox>>

\* A remove_model that keeps the guard of the registry.
remove_model_keys_held ==
    /\ pc[Wizard] = "RemoveModelLock"
    /\ mutex_free(loc[Wizard].model_name)
    /\ Goto(Wizard, "Config")
    /\ loc' = [loc EXCEPT ![Wizard] = NoLoc]
    /\ UNCHANGED <<wmodel, chan, obs, lock, models, wcmd, taken, acked, nin, nfail,
                   snap, config_json, result, inbox>>

\* let lock = model.lock().await; the credentials of lock.dids are deleted
\* (no await); both guards are dropped at the end of the block.
remove_model_keys ==
    /\ pc[Wizard] = "RemoveModelLock"
    /\ mutex_free(loc[Wizard].model_name)
    /\ Release(Wizard, ModelsLock)
    /\ Goto(Wizard, "Config")
    /\ loc' = [loc EXCEPT ![Wizard] = NoLoc]
    /\ UNCHANGED <<wmodel, chan, obs, models, wcmd, taken, acked, nin, nfail,
                   snap, config_json, result, inbox>>

----------------------------------------------------------------------------
(* The steps, by the code they belong to *)

\* Concierge::run but for its inbound arm.
ConciergeCommandNext ==
    \/ ConciergeStart
    \/ ConciergeExit
    \/ ConciergeInterrupt
    \/ ConciergeStartModel
    \/ ConciergeStartLock
    \/ ConciergeLookup
    \/ ConciergeSpawn
    \/ ConciergeCleanup
    \/ ConciergeSaveModels
    \/ ConciergeSaveModel
    \/ ConciergeWrite

\* The inbound arm of Concierge::run after the message is taken.
ConciergeInboundNext ==
    \/ ConciergeLazyLock
    \/ ConciergeLazy
    \/ ConciergeDone

\* The inbound arm of ModelAgent::run after the message is taken.
LazyNext(w) ==
    \/ ModelAgentLazyLock(w)
    \/ ModelAgentLazy(w)
    \/ ModelAgentAck(w)

\* The connection-setup arm of handle_message.
HandshakeNext(w) ==
    \/ handle_message_agent_lock(w)
    \/ handle_message_agent(w)
    \/ handle_message_replace(w)

\* handle_prompt after the stream is open.
ChunkerNext(w) ==
    \/ handle_prompt_lock(w)
    \/ handle_prompt_config(w)
    \/ handle_prompt_elapse(w)
    \/ handle_prompt_timeout(w)
    \/ handle_prompt_tick(w)
    \/ handle_prompt_next(w)
    \/ handle_prompt_for(w)
    \/ handle_prompt_flush(w)

SendMessageNext(t) ==
    \/ send_message_lock(t)
    \/ send_message_read(t)
    \/ send_message_incr(t)
    \/ send_message_send(t)

ThinkingNext(t) ==
    \/ i_am_thinking_lock(t)
    \/ i_am_thinking_read(t)
    \/ i_am_thinking_incr(t)
    \/ i_am_thinking_send(t)

\* send_connection_response and the lock of the replacement after it.
ConnectionNext(t) ==
    \/ send_connection_response(t)
    \/ handshake_lock(t)

----------------------------------------------------------------------------
(* The system: the Concierge from its start to its return, the Model Agents *)
(* it spawns, and light traffic (a handshake or an unknown message to the   *)
(* Concierge, a command to a Model Agent).                                  *)

Next ==
    \/ ConciergeCommandNext
    \/ ConciergeRecv(CoreConciergeMsgs)
    \/ ConciergeInboundNext
    \/ ConciergeReplace
    \/ ConnectionNext(Concierge)
    \/ \E w \in Workers :
         \/ ModelAgentActivate(w)
         \/ ModelAgentExit(w)
         \/ ModelAgentRecv(w, CommandMsgs(wmodel[w]))
         \/ LazyNext(w)
         \/ handle_message_chat(w)
    \/ \E t \in Tasks : SendMessageNext(t)

Spec == Init /\ [][Next]_vars

----------------------------------------------------------------------------
(* One actor and all the traffic: the Concierge and one Model Agent of      *)
(* model "m1" are in their selects, the transport delivers any messages,    *)
(* all of one behaviour to the same actor, the backend answers any stream.  *)

Handler == 1
Handlers == {Concierge, Handler}

InitHandler ==
    /\ pc = [t \in Tasks |-> IF t \in Handlers THEN "Select" ELSE "Unborn"]
    /\ loc = [t \in Tasks |-> NoLoc]
    /\ wmodel = [w \in Workers |-> IF w = Handler THEN "m1" ELSE None]
    /\ chan = [o \in Owners |-> EmptyMap]
    /\ obs = [o \in Owners |-> EmptyMap]
    /\ lock = [l \in Locks |-> NoTask]
    /\ models = [n \in ModelNames |-> IF n = "m1" THEN Handler ELSE 0]
    /\ wcmd = [w \in Workers |-> 0]
    /\ taken = [t \in Tasks |-> 0]
    /\ acked = [t \in Tasks |-> 0]
    /\ nin = 0
    /\ nfail = 0
    /\ snap = EmptyMap
    /\ config_json = <<>>
    /\ result = None
    /\ inbox = [w \in Workers |-> 0]

\* Nothing was delivered to another actor than t.
OnlyTo(t) == \A u \in Tasks \ {t} : taken[u] = 0

HandlerNext ==
    \/ OnlyTo(Concierge) /\ ConciergeRecv(ConciergeMsgs)
    \/ ConciergeInboundNext
    \/ ConciergeReplace
    \/ OnlyTo(Handler) /\ ModelAgentRecv(Handler, WorkerMsgs(wmodel[Handler]))
    \/ LazyNext(Handler)
    \/ HandshakeNext(Handler)
    \/ handle_message_chat(Handler)
    \/ handle_prompt_open(Handler, Streams)
    \/ ChunkerNext(Handler)
    \/ ThinkingNext(Handler)
    \/ \E t \in Handlers :
         \/ SendMessageNext(t)
         \/ ConnectionNext(t)
         \/ handle_presence(t)

SpecHandler == InitHandler /\ [][HandlerNext]_vars

----------------------------------------------------------------------------
(* Shared state: two Model Agents of the same model "m1" (StartModel came   *)
(* twice) in their selects, a prompt or a handshake of one party to each.   *)

InitShared ==
    /\ pc = [t \in Tasks |-> IF t = Wizard THEN "Unborn" ELSE "Select"]
    /\ loc = [t \in Tasks |-> NoLoc]
    /\ wmodel = [w \in Workers |-> "m1"]
    /\ chan = [o \in Owners |-> EmptyMap]
    /\ obs = [o \in Owners |-> EmptyMap]
    /\ lock = [l \in Locks |-> NoTask]
    /\ models = [n \in ModelNames |-> IF n = "m1" THEN MaxWorkers ELSE 0]
    /\ wcmd = [w \in Workers |-> 0]
    /\ taken = [t \in Tasks |-> 0]
    /\ acked = [t \in Tasks |-> 0]
    /\ nin = 0
    /\ nfail = 0
    /\ snap = EmptyMap
    /\ config_json = <<>>
    /\ result = None
    /\ inbox = [w \in Workers |-> 0]

SharedNext ==
    \E w \in Workers :
      \/ ModelAgentRecv(w, SharedMsgs(wmodel[w]))
      \/ LazyNext(w)
      \/ HandshakeNext(w)
      \/ handle_message_chat(w)
      \/ handle_prompt_open(w, CoreStreams)
      \/ ChunkerNext(w)
      \/ ThinkingNext(w)
      \/ SendMessageNext(w)
      \/ ConnectionNext(w)
      \/ handle_presence(w)

SpecShared == InitShared /\ [][SharedNext]_vars

----------------------------------------------------------------------------
(* The life of one Model Agent: the Concierge has spawned the Model Agent   *)
(* of model "m1" and is in its select; the agent activates its profiles,    *)
(* the transport delivers any messages to it, the backend answers any       *)
(* stream, and the Concierge may consume Exit and run its cleanup loop at   *)
(* any time.                                                                *)

InitWorker ==
    /\ pc = [t \in Tasks |-> IF t = Concierge THEN "Select"
                             ELSE IF t = Handler THEN "Starting" ELSE "Unborn"]
    /\ loc = [t \in Tasks |-> NoLoc]
    /\ wmodel = [w \in Workers |-> IF w = Handler THEN "m1" ELSE None]
    /\ chan = [o \in Owners |-> EmptyMap]
    /\ obs = [o \in Owners |-> EmptyMap]
    /\ lock = [l \in Locks |-> NoTask]
    /\ models = [n \in ModelNames |-> IF n = "m1" THEN Handler ELSE 0]
    /\ wcmd = [w \in Workers |-> 0]
    /\ taken = [t \in Tasks |-> 0]
    /\ acked = [t \in Tasks |-> 0]
    /\ nin = 0
    /\ nfail = 0
    /\ snap = EmptyMap
    /\ config_json = <<>>
    /\ result = None
    /\ inbox = [w \in Workers |-> 0]

WorkerNext ==
    \/ ConciergeExit
    \/ ConciergeCleanup
    \/ ModelAgentActivate(Handler)
    \/ ModelAgentExit(Handler)
    \/ ModelAgentRecv(Handler, WorkerMsgs(wmodel[Handler]))
    \/ LazyNext(Handler)
    \/ HandshakeNext(Handler)
    \/ handle_message_chat(Handler)
    \/ handle_prompt_open(Handler, Streams)
    \/ ChunkerNext(Handler)
    \/ ThinkingNext(Handler)
    \/ SendMessageNext(Handler)
    \/ ConnectionNext(Handler)
    \/ handle_presence(Handler)

SpecWorker == InitWorker /\ [][WorkerNext]_vars

----------------------------------------------------------------------------
(* The start of one Model Agent over a backlog: the Concierge has spawned   *)
(* the Model Agent of model "m1" while up to MaxBacklog commands of an      *)
(* earlier run wait in the queue of the mediator for its DID.               *)

InitStarting ==
    /\ pc = [t \in Tasks |-> IF t = Concierge THEN "Select"
                             ELSE IF t = Handler THEN "Starting" ELSE "Unborn"]
    /\ loc = [t \in Tasks |-> NoLoc]
    /\ wmodel = [w \in Workers |-> IF w = Handler THEN "m1" ELSE None]
    /\ chan = [o \in Owners |-> EmptyMap]
    /\ obs = [o \in Owners |-> EmptyMap]
    /\ lock = [l \in Locks |-> NoTask]
    /\ models = [n \in ModelNames |-> IF n = "m1" THEN Handler ELSE 0]
    /\ wcmd = [w \in Workers |-> 0]
    /\ taken = [t \in Tasks |-> 0]
    /\ acked = [t \in Tasks |-> 0]
    /\ nin = 0
    /\ nfail = 0
    /\ snap = EmptyMap
    /\ config_json = <<>>
    /\ result = None
    /\ \E n \in 0..MaxBacklog :
         inbox = [w \in Workers |-> IF w = Handler THEN n ELSE 0]

StartingNext ==
    \/ ModelAgentActivate(Handler)
    \/ ModelAgentRecv(Handler, CommandMsgs(wmodel[Handler]))
    \/ ModelAgentRecvQueued(Handler, CommandMsgs(wmodel[Handler]))
    \/ LazyNext(Handler)
    \/ handle_message_chat(Handler)
    \/ SendMessageNext(Handler)

SpecStarting == InitStarting /\ [][StartingNext]_vars

----------------------------------------------------------------------------
(* One Model Agent and its prompts under fair scheduling: the task goes on  *)
(* while it can, time passes while the task waits in the select of          *)
(* handle_prompt, and the select takes a branch that is ready again and     *)
(* again.                                                                   *)

PromptMsgs(m) == {Chat("p1", AgentDid(m), TRUE, <<"hi">>, FALSE)}

\* The steps of handle_message and handle_prompt outside the select.
TaskNext(w) ==
    \/ LazyNext(w)
    \/ handle_message_chat(w)
    \/ handle_prompt_open(w, TimedStreams)
    \/ handle_prompt_lock(w)
    \/ handle_prompt_config(w)
    \/ handle_prompt_for(w)
    \/ handle_prompt_flush(w)
    \/ ThinkingNext(w)
    \/ SendMessageNext(w)
    \/ handle_presence(w)

\* The branches of the select of handle_prompt, and the time it waits.
SelectNext(w) ==
    \/ handle_prompt_elapse(w)
    \/ handle_prompt_timeout(w)
    \/ handle_prompt_tick(w)
    \/ handle_prompt_next(w)

ChunkerSpecNext ==
    \/ ModelAgentRecv(Handler, PromptMsgs(wmodel[Handler]))
    \/ TaskNext(Handler)
    \/ SelectNext(Handler)

SpecChunker ==
    /\ InitHandler
    /\ [][ChunkerSpecNext]_vars
    /\ WF_vars(TaskNext(Handler))
    /\ SF_vars(handle_prompt_elapse(Handler))
    /\ SF_vars(handle_prompt_timeout(Handler))

----------------------------------------------------------------------------
(* Mutexes and network I/O: the Concierge in its select with the Model      *)
(* Agent of "m1" spawned, StartModel commands and a handshake to the        *)
(* Concierge, a prompt, a handshake and a presence request to the Model     *)
(* Agent.                                                                   *)

IOMsgs(m) ==
    PromptMsgs(m) \cup {Setup("p1", AgentDid(m), "n1"),
                        Plain(ChatPresence, "p1", AgentDid(m))}

LocksNext ==
    \/ ConciergeStartModel
    \/ ConciergeStartLock
    \/ ConciergeLookup
    \/ ConciergeSpawn
    \/ ConciergeRecv(CoreConciergeMsgs)
    \/ ConciergeInboundNext
    \/ ConciergeReplace
    \/ \E w \in Workers : ModelAgentActivate(w)
    \/ ModelAgentRecv(Handler, IOMsgs(wmodel[Handler]))
    \/ LazyNext(Handler)
    \/ HandshakeNext(Handler)
    \/ handle_message_chat(Handler)
    \/ handle_prompt_open(Handler, CoreStreams)
    \/ ChunkerNext(Handler)
    \/ ThinkingNext(Handler)
    \/ \E t \in Handlers :
         \/ SendMessageNext(t)
         \/ ConnectionNext(t)
         \/ handle_presence(t)

SpecLocks == InitWorker /\ [][LocksNext]_vars

----------------------------------------------------------------------------
(* The same message to both actors: the Concierge takes a message of "p1",  *)
(* and when it is through with it the Model Agent takes the same message,   *)
(* addressed to its own DID; the Concierge goes back to its select when the *)
(* Model Agent is through as well.                                          *)

TwinMsgs ==
    {Plain(ty, "p1", ConciergeDid) : ty \in {ChatPresence, ChatDelivered, ChatActivity,
                                             ProtocolStatus, Unknown}}
    \cup {Setup("p1", ConciergeDid, "n1")}

\* The message m as the transport delivers it to the Model Agent of model n.
Twin(m, n) == [m EXCEPT !.to = AgentDid(n)]

TwinNext ==
    \/ ConciergeRecv(TwinMsgs)
    \/ ConciergeLazyLock
    \/ ConciergeLazy
    \/ ConciergeReplace
    \/ pc[Handler] = "Ack" /\ ConciergeDone
    \/ pc[Concierge] = "Done" /\ taken[Handler] < taken[Concierge]
         /\ ModelAgentRecv(Handler, {Twin(loc[Concierge].msg, wmodel[Handler])})
    \/ LazyNext(Handler)
    \/ HandshakeNext(Handler)
    \/ \E t \in Handlers :
         \/ SendMessageNext(t)
         \/ ConnectionNext(t)
         \/ handle_presence(t)

SpecTwin == InitHandler /\ [][TwinNext]_vars

----------------------------------------------------------------------------
(* The mutexes under every use at once: the Concierge in its select with   *)
(* every Model Agent the bound allows spawned (its StartModel lookups, a    *)
(* message to answer, its save at shutdown), the Model Agent of "m1" with   *)
(* commands to answer, and the configuration edited (add_model,             *)
(* remove_model) at the same time.  Whether a name is still in the registry *)
(* when remove_model looks is not followed: every configured name is found. *)
(* Every task that can run does run, and tokio's Mutex serves its waiters   *)
(* in the order they came: a waiter whose mutex is free again and again     *)
(* gets it.                                                                 *)

InitConfig ==
    /\ pc = [t \in Tasks |-> IF t = Wizard THEN "Config" ELSE "Select"]
    /\ loc = [t \in Tasks |-> NoLoc]
    /\ wmodel = [w \in Workers |-> IF w = Handler THEN "m1" ELSE "m2"]
    /\ chan = [o \in Owners |-> EmptyMap]
    /\ obs = [o \in Owners |-> EmptyMap]
    /\ lock = [l \in Locks |-> NoTask]
    /\ models = [n \in ModelNames |-> IF n = "m1" THEN Handler ELSE MaxWorkers]
    /\ wcmd = [w \in Workers |-> 0]
    /\ taken = [t \in Tasks |-> 0]
    /\ acked = [t \in Tasks |-> 0]
    /\ nin = 0
    /\ nfail = 0
    /\ snap = EmptyMap
    /\ config_json = <<>>
    /\ result = None
    /\ inbox = [w \in Workers |-> 0]

\* The steps a task takes by itself once it has been given work: t is the
\* Concierge, a Model Agent or the Wizard.
ConfigRun(t) ==
    \/ /\ t = Concierge
       /\ \/ ConciergeStartLock
          \/ ConciergeLookup
          \/ ConciergeInboundNext
          \/ ConciergeCleanup
          \/ ConciergeSaveModels
          \/ ConciergeSaveModel
          \/ ConciergeWrite
    \/ /\ t = Handler
       /\ \/ LazyNext(t)
          \/ handle_message_chat(t)
    \/ /\ t \in Handlers
       /\ SendMessageNext(t)
    \/ /\ t = Wizard
       /\ \/ add_model_insert
          \/ remove_model_remove
          \/ remove_model_keys

ConfigNext ==
    \/ ConciergeStartModel
    \/ ConciergeExit
    \/ ConciergeRecv({Plain(Unknown, "p1", ConciergeDid)})
    \/ add_model
    \/ remove_model
    \/ \E w \in Workers : ModelAgentExit(w)
    \/ ModelAgentRecv(Handler, CommandMsgs(wmodel[Handler]))
    \/ \E t \in Tasks : ConfigRun(t)

SpecConfig ==
    /\ InitConfig
    /\ [][ConfigNext]_vars
    /\ \A t \in Tasks : SF_vars(ConfigRun(t))

----------------------------------------------------------------------------
(* Sequence numbers *)

\* The calls of send_message (of i_am_thinking) that have read the counter of
\* record h of owner o and not yet written it back.
Reading(o, h, at) ==
    {t \in Tasks : pc[t] = at /\ Owner(t) = o /\ digest(loc[t].to_did) = h}

\* C1: the k-th send_message to a party since its record was created with
\* zero counters carries sequence number k - 1, and seq_no counts the calls:
\* it is incremented once per message built.
C1_SendsCarryZeroToN ==
    \A o \in Owners : \A h \in DOMAIN chan[o] :
      /\ \A k \in 1..Len(obs[o][h].seq) : obs[o][h].seq[k] = k - 1
      /\ chan[o][h].seq_no =
           Len(obs[o][h].seq) - Cardinality(Reading(o, h, "SmWrite"))

\* Three sends to one party are through.
C1_ThreeSends ==
    \E o \in Owners : \E h \in DOMAIN chan[o] :
      /\ obs[o][h].seq = <<0, 1, 2>>
      /\ chan[o][h].seq_no = 3

\* C2: within one record no two calls of send_message observe the same
\* seq_no and no two calls of i_am_thinking the same activity_seq_no, the
\* observed values increase strictly, and a call reads and increments only
\* while it holds the owner's mutex.
C2_NoSequenceNumberTwice ==
    /\ \A o \in Owners : \A h \in DOMAIN chan[o] :
         /\ \A i, j \in 1..Len(obs[o][h].seq) :
              i < j => obs[o][h].seq[i] < obs[o][h].seq[j]
         /\ \A i, j \in 1..Len(obs[o][h].act) :
              i < j => obs[o][h].act[i] < obs[o][h].act[j]
    /\ \A t \in Tasks :
         pc[t] \in {"SmRead", "SmWrite", "IatRead", "IatWrite"} => lock[Owner(t)] = t

\* Two Model Agents of one model have each taken a number of the same
\* record and are sending at the same time.
C2_TwoSendersAtOnce ==
    \E t, u \in Workers :
      /\ t # u
      /\ wmodel[t] = wmodel[u]
      /\ loc[t].to_did = loc[u].to_did
      /\ pc[t] = "IatSend" /\ pc[u] = "SmSend"
      /\ Len(obs[wmodel[t]][digest(loc[t].to_did)].seq) >= 1
      /\ Len(obs[wmodel[t]][digest(loc[t].to_did)].act) >= 2

----------------------------------------------------------------------------
(* The handshake *)

\* The task has just left the critical section of a handshake: the greeting
\* is called and not yet under way.
Replaced(t) ==
    /\ pc[t] = "SmLock"
    /\ loc[t].msg.type = ConnectionSetup
    /\ loc[t].text = Greeting

\* C3: the step that ends the critical section of a handshake (entered with
\* the owner's mutex held, left with it released) leaves a record under the
\* hash of the negotiated DID with both counters 0, whatever they were, and
\* no record under the hash of the sender's DID unless the two DIDs are the
\* same.
C3_HandshakeReplacesRecord ==
    [][\A t \in Tasks :
         (pc[t] = "HsCS2" /\ pc'[t] # "HsCS2") =>
           LET o == Owner(t)
               old == digest(loc[t].msg.from)
               new == digest(loc[t].new_did) IN
           /\ lock[o] = t /\ lock'[o] = NoTask
           /\ new \in DOMAIN chan'[o]
           /\ chan'[o][new] = ChatChannelState(loc[t].new_did, new)
           /\ old # new => old \notin DOMAIN chan'[o]
           /\ \A h \in DOMAIN chan[o] \ {old, new} :
                h \in DOMAIN chan'[o] /\ chan'[o][h] = chan[o][h]]_vars

\* A handshake has replaced a record as the second message of the behaviour:
\* the sender's record is gone, the new one has zero counters.
C3_SecondHandshakeDone ==
    \E t \in Tasks :
      /\ Replaced(t)
      /\ taken[t] = 2
      /\ digest(loc[t].msg.from) \notin DOMAIN chan[Owner(t)]
      /\ chan[Owner(t)][digest(loc[t].new_did)].seq_no = 0
      /\ chan[Owner(t)][digest(loc[t].new_did)].activity_seq_no = 0

\* C3 as the specification states it: after the replacement the record under
\* the hash of the sender's DID is always absent.
C3_OldHashAlwaysAbsent ==
    \A t \in Tasks :
      Replaced(t) => digest(loc[t].msg.from) \notin DOMAIN chan[Owner(t)]

----------------------------------------------------------------------------
(* Shutdown *)

\* The workers the registry of Concierge::run holds a sender for.
Registered == {w \in Workers : \E n \in ModelNames : models[n] = w}

\* The Concierge broke out of its loop on an Exit command and is past the
\* cleanup loop.
ExitCleanedUp ==
    /\ loc[Concierge].interrupted = "UserInt"
    /\ pc[Concierge] \in {"SaveModels", "SaveModel", "Write", "Stopped"}

\* C4: once the Concierge has consumed Exit and run its cleanup, every
\* registered Model Agent whose task had not ended has exactly one Exit in
\* its command channel (one whose task had ended has none), and run returns
\* the Exit's reason only with config.json written.
C4_ExitToRunningWorkersThenSave ==
    /\ \A w \in Workers : wcmd[w] <= 1
    /\ ExitCleanedUp =>
         \A w \in Registered : wcmd[w] = 1 \/ (wcmd[w] = 0 /\ pc[w] \in Dead)
    /\ result \in Interrupts \cup {"UserInt"} => config_json = <<snap>>

\* Exit was consumed with every worker the bound allows registered and
\* running; each has its Exit, config.json is written, run has returned.
C4_AllRegisteredGotExit ==
    /\ ExitCleanedUp
    /\ pc[Concierge] = "Stopped"
    /\ result = "UserInt"
    /\ Registered = Workers
    /\ \A w \in Workers : wcmd[w] = 1
    /\ config_json # <<>>

\* C4 as the specification states it: every registered worker has its Exit
\* and the state is persisted when run has returned.
C4_EveryRegisteredWorkerGetsExit ==
    (ExitCleanedUp /\ pc[Concierge] = "Stopped") =>
      /\ \A w \in Registered : wcmd[w] = 1
      /\ config_json # <<>>

----------------------------------------------------------------------------
(* Survival and acknowledgement *)

\* C5: no inbound message ends an actor: while the environment has not
\* failed, no task has unwound from a panic.
C5_NoMessageEndsAnActor ==
    nfail = 0 => \A t \in Tasks : pc[t] # "Panicked"

\* C10: a Model Agent back in its select has acknowledged every message it
\* took, exactly once.
C10_EveryTakenMessageAcked ==
    \A w \in Workers : pc[w] = "Select" => acked[w] = taken[w]

----------------------------------------------------------------------------
(* The chunker *)

\* The chat messages among what a task has sent.
is_chat(m) == m.kind = ChatMessageT
chats(out) == SelectSeq(out, is_chat)

\* A sentence sent from inside the loop ends with its break.
is_sentence(text) == Len(text) > 0 /\ text[Len(text)] = "\n\n"

\* The run of handle_prompt for the message in hand is over (the
\* acknowledgement is next) and nothing of the environment has failed.
RunOver(w) ==
    /\ pc[w] = "Ack"
    /\ "generate_stream" \in loc[w].ran
    /\ nfail = 0

\* C6: a run that timed out has sent exactly one "Timeout" chat message and
\* no chat message after it.
C6_TimeoutTakesPlaceOfFlush ==
    \A w \in Workers :
      LET c == chats(loc[w].out) IN
      \A i \in 1..Len(c) : c[i].text = TimeoutText => i = Len(c)

\* C7: the run on HelloStream that did not time out sends no chat message
\* until it is over, and then has sent exactly one, "Hello" " world.".
C7_HelloWorldInOneMessage ==
    \A w \in Workers :
      LET c == chats(loc[w].out) IN
      (loc[w].generated = HelloStream /\ "timeout" \notin loc[w].ran) =>
        /\ Len(c) <= 1
        /\ Len(c) = 1 => (c[1].text = <<"Hello", " world.">> /\ pc[w] = "Ack")
        /\ RunOver(w) => Len(c) = 1

\* The run on HelloStream is over with its one message sent.
C7_HelloWorldSent ==
    \E w \in Workers :
      /\ RunOver(w)
      /\ "timeout" \notin loc[w].ran
      /\ loc[w].generated = HelloStream
      /\ Len(chats(loc[w].out)) = 1
      /\ chats(loc[w].out)[1].text = <<"Hello", " world.">>

\* C8: when a run is over (its stream ended or its timeout fired), the last
\* message it sent is a chat message with what was left in the buffer, and
\* every chat message before it is a sentence sent from the loop or the
\* "Timeout" message: the flush is sent exactly once, and last.
C8_OneFinalFlush ==
    \A w \in Workers :
      RunOver(w) =>
        LET out == loc[w].out
            c == chats(out) IN
        /\ Len(c) >= 1
        /\ is_chat(out[Len(out)])
        /\ c[Len(c)].text = loc[w].output
        /\ c[Len(c)].to = loc[w].msg.from
        /\ \A i \in 1..(Len(c) - 1) :
             c[i].text = TimeoutText \/ is_sentence(c[i].text)

\* A run whose stream ended with an empty buffer is over: its last message
\* is the empty chat message.
C8_EmptyFlushSent ==
    \E w \in Workers :
      /\ RunOver(w)
      /\ loc[w].generated.end = "End"
      /\ loc[w].output = <<>>
      /\ chats(loc[w].out)[Len(chats(loc[w].out))].text = <<>>

----------------------------------------------------------------------------
(* Attachments *)

\* The delivered-receipt ack_message sends for message m.
Receipt(m) == Sent(ChatDelivered, m.from, NoSeq, <<>>)

\* C9: while a Model Agent handles a chat message with attachments, neither
\* handle_command nor handle_prompt nor the backend is entered, and what it
\* sends is the delivered-receipt and then, to a body that parses, the
\* attachments reply as the only chat message.
C9_AttachmentsNeverReachBackend ==
    \A w \in Workers :
      LET m == loc[w].msg
          out == loc[w].out IN
      (m.type = ChatMessageT /\ m.attachments) =>
        /\ loc[w].ran = {}
        /\ pc[w] \notin {"HpLock", "HpCS", "HpGen", "Loop", "Res", "Flush"}
        /\ \A i \in 1..Len(out) :
             \/ out[i] = Receipt(m)
             \/ (is_chat(out[i]) /\ out[i].text = AttachmentsReply /\ m.parses)
        /\ Len(chats(out)) <= 1
        /\ (pc[w] = "Ack" /\ nfail = 0 /\ m.parses) => Len(chats(out)) = 1

\* A chat message with attachments is through: the receipt and the reply
\* are sent.
C9_AttachmentsAnswered ==
    \E w \in Workers :
      /\ pc[w] = "Ack"
      /\ loc[w].msg.attachments
      /\ Len(loc[w].out) = 2
      /\ loc[w].out[1] = Receipt(loc[w].msg)
      /\ loc[w].out[2].text = AttachmentsReply

\* C9 as the specification states it: the attachments reply is the only
\* message sent in response to a chat message with attachments.
C9_ReplyIsOnlyOutboundMessage ==
    \A w \in Workers :
      (loc[w].msg.type = ChatMessageT /\ loc[w].msg.attachments) =>
        \A i \in 1..Len(loc[w].out) :
          is_chat(loc[w].out[i]) /\ loc[w].out[i].text = AttachmentsReply

----------------------------------------------------------------------------
(* Malformed bodies *)

\* The tags handle_message and Concierge::run have an arm for.
RecognizedTags ==
    {ConnectionSetup, ChatPresence, ChatEffect, ChatMessageT, ChatDelivered,
     ChatActivity, ProtocolStatus}

\* A body the code cannot read as what its tag asks for: serde_json fails on
\* it, or a connection-setup lacks its channel_did.
unparsable_body(m) ==
    \/ ~m.parses
    \/ (m.type = ConnectionSetup /\ channel_did_of(m) = None)

\* C11: an actor that handles a message with a recognized tag and an
\* unparsable body does not end by it and, when the tag is connection-setup
\* or chat-message, sends nothing to the remote party.
C11_UnparsableBodyConsumed ==
    \A t \in Tasks :
      LET m == loc[t].msg IN
      (nfail = 0 /\ m.type \in RecognizedTags /\ unparsable_body(m)) =>
        /\ pc[t] # "Panicked"
        /\ m.type \in {ConnectionSetup, ChatMessageT} => loc[t].out = <<>>

----------------------------------------------------------------------------
(* The record of the destination *)

\* C12: a task about to read seq_no in send_message or activity_seq_no in
\* i_am_thinking finds a record under the hash of its destination, so the
\* unwrap() of get_channel_state_mut never panics.
C12_RecordExistsWhenSequencing ==
    \A t \in Tasks :
      pc[t] \in {"SmRead", "IatRead"} =>
        has_channel_state(chan[Owner(t)], digest(loc[t].to_did))

----------------------------------------------------------------------------
(* Fatal errors *)

\* The reasons Concierge::run returns in Ok(..).
OkReasons == Interrupts \cup {"UserInt"}

\* C13: a failed activation of an identity, of the Concierge or of a Model
\* Agent, and a failed write of the state are returned from Concierge::run
\* as an error: run returns an Ok reason only if no Model Agent failed to
\* start and config.json is written.
C13_FatalErrorsReachTheHost ==
    result \in OkReasons =>
      /\ \A w \in Workers : pc[w] # "Failed"
      /\ config_json = <<snap>>

----------------------------------------------------------------------------
(* StartModel *)

\* The Concierge is handling a StartModel whose name the configuration lacks.
AbsentModel(l) == l[Concierge].model_name \in StartNames \ ModelNames

\* C14: no step taken while the Concierge handles a StartModel that names a
\* model absent from the configuration changes the registry or spawns a
\* worker, the Concierge waits for nothing but the registry mutex, and the
\* lookup puts it back in its select with the mutex released.
C14_UnknownModelIgnored ==
    [][(AbsentModel(loc) \/ AbsentModel(loc')) =>
         /\ models' = models
         /\ wmodel' = wmodel
         /\ Spawned' = Spawned
         /\ result' = result
         /\ pc'[Concierge] \in {"StartLock", "StartCS", "Select"}
         /\ (pc[Concierge] = "StartCS" /\ pc'[Concierge] # "StartCS") =>
              (pc'[Concierge] = "Select" /\ lock'[ModelsLock] = NoTask)]_vars

\* The lookup of an absent name is under way with a worker in the registry.
C14_UnknownModelLookedUp ==
    /\ pc[Concierge] = "StartCS"
    /\ AbsentModel(loc)
    /\ lock[ModelsLock] = Concierge
    /\ \E n \in ModelNames : models[n] # 0

----------------------------------------------------------------------------
(* The life of a Model Agent *)

\* Starting: in the loop over its profiles.  Active: in the select loop or
\* handling a message.  Stopped: run has returned or unwound.
worker_phase(p) ==
    IF p = "Unborn" THEN "Unborn"
    ELSE IF p \in Activating THEN "Starting"
    ELSE IF p \in Dead THEN "Stopped"
    ELSE "Active"

\* C15: a Model Agent goes from Starting to Active, or ends in Starting by
\* a failed activation; it takes inbound messages only in the select of
\* Active; it leaves Active only by consuming an Exit in its select (break,
\* then return with nothing in between) or by a panic; and once its task has
\* ended it stays so and takes, sends and acknowledges nothing.
C15_WorkerLifeCycle ==
    [][\A w \in Workers :
         LET ph == worker_phase(pc[w])
             ph1 == worker_phase(pc'[w]) IN
         /\ ph1 # ph =>
              \/ ph = "Unborn" /\ ph1 = "Starting"
              \/ ph = "Starting" /\ ph1 = "Active" /\ pc'[w] = "Select"
              \/ ph = "Starting" /\ pc'[w] = "Failed"
              \/ ph = "Active" /\ pc'[w] = "Panicked"
              \/ /\ ph = "Active" /\ pc'[w] = "Stopped"
                 /\ pc[w] = "Select" /\ wcmd[w] > 0
         /\ taken'[w] # taken[w] => (pc[w] = "Select" /\ taken'[w] = taken[w] + 1)
         /\ ph = "Stopped" =>
              /\ pc'[w] = pc[w] /\ loc'[w] = loc[w]
              /\ taken'[w] = taken[w] /\ acked'[w] = acked[w]]_vars

\* A Model Agent has handled a message, consumed Exit and returned while the
\* transport has another message to deliver.
C15_StoppedAfterWork ==
    \E w \in Workers :
      /\ pc[w] = "Stopped"
      /\ wcmd[w] = 1
      /\ taken[w] >= 1 /\ acked[w] = taken[w]
      /\ nin < MaxInbound

\* C15 as the specification states it: the task of a Model Agent ends only
\* from Active, by consuming an Exit.
C15_EndsOnlyByExit ==
    [][\A w \in Workers :
         (pc'[w] \in Dead /\ pc[w] \notin Dead) =>
           (pc[w] = "Select" /\ wcmd[w] > 0 /\ pc'[w] = "Stopped")]_vars

----------------------------------------------------------------------------
(* The life of the Concierge *)

\* Starting: before the loop.  Active: in the select loop or in one of its
\* arms.  Terminating: after the break, in the cleanup loop or in save.
\* Stopped: run has returned or unwound.
concierge_phase(p) ==
    IF p = "Starting" THEN "Starting"
    ELSE IF p \in {"Cleanup", "SaveModels", "SaveModel", "Write"} THEN "Terminating"
    ELSE IF p \in Dead THEN "Stopped"
    ELSE "Active"

\* C16: the Concierge leaves Active for Terminating only from its select,
\* with the reason it broke with (UserInt for Exit, the interrupt received
\* otherwise); whatever the reason, the cleanup loop queues one Exit for
\* every registered Model Agent whose task has not ended, the save follows,
\* and run returns that reason with config.json written, or the error of the
\* write; run ends without a teardown only by an error or a panic of an arm.
C16_ConciergeLifeCycle ==
    [][LET p == pc[Concierge]
           p1 == pc'[Concierge]
           ph == concierge_phase(p)
           ph1 == concierge_phase(p1) IN
       /\ (ph = "Active" /\ ph1 = "Terminating") =>
            /\ p = "Select" /\ p1 = "Cleanup"
            /\ loc'[Concierge].interrupted \in OkReasons
       /\ (ph = "Active" /\ ph1 = "Stopped") =>
            \/ p1 = "Panicked"
            \/ p = "Profiles" /\ result' = "Err"
       /\ (ph = "Terminating" /\ p1 # p) =>
            /\ <<p, p1>> \in {<<"Cleanup", "SaveModels">>, <<"SaveModels", "SaveModel">>,
                              <<"SaveModel", "Write">>, <<"Write", "Stopped">>}
            /\ loc'[Concierge].interrupted = loc[Concierge].interrupted
       /\ (p = "Cleanup" /\ p1 # p) =>
            \A w \in Workers :
              wcmd'[w] = IF w \in Registered /\ pc[w] \notin Dead
                         THEN wcmd[w] + 1 ELSE wcmd[w]
       /\ (p = "Write" /\ p1 # p) =>
            \/ result' = loc[Concierge].interrupted /\ config_json' = <<snap>>
            \/ result' = "Err" /\ config_json' = config_json
       /\ ph = "Stopped" => (p1 = p /\ result' = result /\ config_json' = config_json)
       /\ ph1 # "Stopped" => result' = None]_vars

\* An interrupt of the host ended the run: every worker the bound allows was
\* registered and has its Exit, config.json is written, and run returned
\* the interrupt.
C16_InterruptTornDown ==
    /\ pc[Concierge] = "Stopped"
    /\ result \in Interrupts
    /\ result = loc[Concierge].interrupted
    /\ Registered = Workers
    /\ \A w \in Workers : wcmd[w] = 1
    /\ config_json = <<snap>>

\* C16 as the specification states it: run ends only out of Terminating,
\* returning the reason it received.
C16_EndsOnlyByTeardown ==
    [][(pc'[Concierge] \in Dead /\ pc[Concierge] \notin Dead \cup {"Starting"}) =>
         (pc[Concierge] = "Write" /\ result' = loc[Concierge].interrupted)]_vars

----------------------------------------------------------------------------
(* The backlog *)

\* C17: a Model Agent's profile goes live only after clear_inbound_messages
\* has run for it, and a message that was queued before the Model Agent
\* started is never dispatched to handle_message.
C17_NoQueuedMessageDispatched ==
    \A w \in Workers :
      /\ pc[w] \in {"Starting", "ClearIn"} => taken[w] = 0
      /\ ~loc[w].queued

----------------------------------------------------------------------------
(* Commands *)

\* The chat message a Model Agent is handling has been read by
\* handle_message: its body parsed and it carried no attachments.
Routed(w) ==
    /\ loc[w].msg.type = ChatMessageT
    /\ loc[w].msg.parses
    /\ ~has_attachments(loc[w].msg)
    /\ loc[w].handled # None

\* C18: a chat text without attachments that starts with "/" runs
\* handle_command only, never reaches handle_prompt or the backend, and is
\* answered by the response of the command table (help and dids in any case
\* of letters, else the usage error) as the only chat message: at most one,
\* and exactly one when no transport call fails; a chat text without
\* attachments and without the prefix is always passed to handle_prompt.
C18_CommandsAnsweredFromTable ==
    \A w \in Workers :
      LET m == loc[w].msg
          out == loc[w].out IN
      Routed(w) =>
        IF Head(m.text) = "/"
        THEN /\ loc[w].ran = {"handle_command"}
             /\ pc[w] \notin {"HpLock", "HpCS", "HpGen", "Loop", "Res", "Flush"}
             /\ loc[w].generated = NoStream
             /\ \A i \in 1..Len(out) :
                  is_chat(out[i]) =>
                    /\ out[i].text = command_response(m.text, ProfileDid(w), m.from)
                    /\ out[i].to = m.from
             /\ Len(chats(out)) <= 1
             /\ (pc[w] = "Ack" /\ nfail = 0) => Len(chats(out)) = 1
        ELSE "handle_prompt" \in loc[w].ran

\* An unknown command was answered with the usage error.
C18_UnknownCommandAnswered ==
    \E w \in Workers :
      /\ pc[w] = "Ack"
      /\ loc[w].msg.text = <<"/", "x">>
      /\ Len(chats(loc[w].out)) = 1
      /\ chats(loc[w].out)[1].text =
           <<"ERROR: unknown command: ", "/", "x", "Use /help to show commands">>

\* C18 as the specification states it: every received chat text with the
\* prefix gets exactly one chat reply, the one of the command table, and
\* every received chat text without the prefix goes to handle_prompt.
C18_EveryChatTextRouted ==
    \A w \in Workers :
      LET m == loc[w].msg
          out == loc[w].out IN
      (m.type = ChatMessageT /\ m.parses /\ pc[w] = "Ack") =>
        IF Head(m.text) = "/"
        THEN /\ Len(chats(out)) = 1
             /\ chats(out)[1].text = command_response(m.text, ProfileDid(w), m.from)
        ELSE "handle_prompt" \in loc[w].ran

----------------------------------------------------------------------------
(* Backend errors *)

\* C19: a Model Agent that has passed a prompt to handle_prompt does not end
\* by it, whether the backend cannot be reached or the stream yields an
\* error; after a stream that ended with an error and without the timeout
\* the last chat message sent is the buffered output, and the Model Agent is
\* back at delete_message_background on its way to the select.
C19_BackendErrorsSurvived ==
    \A w \in Workers :
      "handle_prompt" \in loc[w].ran =>
        /\ pc[w] # "Panicked"
        /\ (/\ pc[w] = "Ack"
            /\ loc[w].generated.end = "Err"
            /\ "timeout" \notin loc[w].ran
            /\ nfail = 0) =>
             /\ chats(loc[w].out) # <<>>
             /\ loc[w].output = chats(loc[w].out)[Len(chats(loc[w].out))].text

----------------------------------------------------------------------------
(* Exit during a chunker run *)

\* The stream of handle_prompt is open and handle_prompt has not returned.
ChunkerRunning(w) ==
    /\ "generate_stream" \in loc[w].ran
    /\ pc[w] \notin {"Ack", "Select"} \cup Dead

\* C20: while a chunker run of a Model Agent is in flight and an Exit waits
\* in its command channel, no step ends the Model Agent or takes it back to
\* the select or changes the message it handles; the run ends on its own,
\* by the return of the final send_message after the stream's end or the
\* timeout, by an error of stdout, or by the panic of a failed
\* handle_presence; and a Model Agent leaves its loop only from the select,
\* with no message in hand and an Exit in the channel.
C20_ExitWaitsForChunker ==
    [][\A w \in Workers :
         /\ (ChunkerRunning(w) /\ wcmd[w] > 0) =>
              /\ pc'[w] \notin {"Stopped", "Failed", "Select"}
              /\ pc'[w] = "Panicked" => (pc[w] = "TickPresence" /\ nfail' = nfail + 1)
              /\ loc'[w].msg = loc[w].msg
              /\ pc'[w] = "Ack" =>
                   \/ pc[w] \in {"SmRead", "SmWrite", "SmSend"} /\ loc[w].ret = "Ack"
                   \/ pc[w] = "Res" /\ nfail' = nfail + 1
         /\ (pc'[w] = "Stopped" /\ pc[w] # "Stopped") =>
              /\ pc[w] = "Select"
              /\ loc[w] = NoLoc
              /\ wcmd[w] > 0]_vars

\* A chunker run has ended with its final message sent while the Exit of the
\* cleanup waited in the channel, and the Model Agent has not yet left.
C20_RunCompletedUnderExit ==
    \E w \in Workers :
      /\ pc[w] = "Ack"
      /\ wcmd[w] > 0
      /\ "generate_stream" \in loc[w].ran
      /\ loc[w].generated = HelloStream
      /\ chats(loc[w].out) # <<>>
      /\ chats(loc[w].out)[Len(chats(loc[w].out))].text = <<"Hello", " world.">>

\* C20 as the specification states it: a chunker run under a waiting Exit
\* ends only after it has sent its final message.
C20_RunEndsWithFinalMessage ==
    [][\A w \in Workers :
         (ChunkerRunning(w) /\ wcmd[w] > 0 /\ pc'[w] = "Ack") =>
           /\ pc[w] = "SmSend"
           /\ loc[w].ret = "Ack"
           /\ Len(loc'[w].out) = Len(loc[w].out) + 1]_vars

----------------------------------------------------------------------------
(* The thinking preamble *)

\* The fragments of a stream in the order the for loops meet them.
RECURSIVE Fragments(_)
Fragments(items) ==
    IF items = <<>> THEN <<>> ELSE Head(items) \o Fragments(Tail(items))

\* The fragment holds the end-marker.
HasMarker(f) == \E i \in DOMAIN f : f[i] = "</think>"

\* The number of fragments up to the first one with the end-marker, it
\* included; all of them when there is none.
RECURSIVE Preamble(_)
Preamble(fs) ==
    IF fs = <<>> THEN 0
    ELSE IF HasMarker(Head(fs)) THEN 1
    ELSE 1 + Preamble(Tail(fs))

Pieces(fs) == UNION {{f[i] : i \in DOMAIN f} : f \in {fs[j] : j \in DOMAIN fs}}

\* The fragments in one text, the bare paragraph breaks left out.
RECURSIVE Joined(_)
Joined(fs) ==
    IF fs = <<>> THEN <<>>
    ELSE IF Head(fs) = <<"\n\n">> THEN Joined(Tail(fs))
    ELSE Head(fs) \o Joined(Tail(fs))

\* The texts of the chat messages in out, in one text.
RECURSIVE Texts(_)
Texts(out) ==
    IF out = <<>> THEN <<>>
    ELSE (IF is_chat(Head(out)) THEN Head(out).text ELSE <<>>) \o Texts(Tail(out))

\* C21: in a chunker run no piece of a fragment received up to and with the
\* first fragment that holds the end-marker is in the text of a chat message
\* sent or in the buffer, and when the stream has ended without the timeout
\* and without a failure, the chat messages sent hold every later fragment
\* but the bare paragraph breaks, in order.
C21_PreambleNeverSent ==
    \A w \in Workers :
      LET fs == Fragments(loc[w].generated.items)
          n == Preamble(fs)
          hidden == Pieces(SubSeq(fs, 1, n))
          out == loc[w].out IN
      "generate_stream" \in loc[w].ran =>
        /\ \A i \in DOMAIN out :
             is_chat(out[i]) => \A j \in DOMAIN out[i].text : out[i].text[j] \notin hidden
        /\ \A j \in DOMAIN loc[w].output : loc[w].output[j] \notin hidden
        /\ (/\ pc[w] = "Ack"
            /\ loc[w].generated.end \in {"End", "Err"}
            /\ "timeout" \notin loc[w].ran
            /\ nfail = 0) =>
             Texts(out) = Joined(SubSeq(fs, n + 1, Len(fs)))

\* The stream whose marker fragment holds "Hi" as well has ended, and
\* "Hello", the fragment after it, was sent.
C21_TextInMarkerFragmentDropped ==
    \E w \in Workers :
      /\ pc[w] = "Ack"
      /\ loc[w].generated =
           Stream(<< << <<"</think>", "Hi">> >>, << <<"Hello">> >> >>, "Err")
      /\ Texts(loc[w].out) = <<"Hello">>

----------------------------------------------------------------------------
(* Visible fragments *)

\* What the chunker is to have done with the visible fragments fs: the
\* texts sent, and the buffer.  A bare paragraph break is dropped, the
\* fragment ".\n\n" is appended and the buffer sent and emptied, every other
\* fragment is appended.
RECURSIVE Chunked(_, _)
Chunked(fs, acc) ==
    IF fs = <<>> THEN acc
    ELSE LET f == Head(fs) IN
         Chunked(Tail(fs),
                 IF f = <<"\n\n">> THEN acc
                 ELSE IF f = <<".", "\n\n">>
                 THEN [sent |-> Append(acc.sent, acc.buf \o f), buf |-> <<>>]
                 ELSE [sent |-> acc.sent, buf |-> acc.buf \o f])

\* The run of w stands between two items of its stream or after the last,
\* no transport call has failed and the timeout has not fired.
BetweenItems(w) ==
    /\ "generate_stream" \in loc[w].ran
    /\ "timeout" \notin loc[w].ran
    /\ pc[w] \in {"Loop", "Flush"}
    /\ nfail = 0

\* The visible fragments the run of w has consumed.
Consumed(w) ==
    LET fs == Fragments(loc[w].generated.items)
        left == Len(Fragments(loc[w].stream)) IN
    SubSeq(fs, Preamble(fs) + 1, Len(fs) - left)

\* C22: between two items of the stream the chat messages a run has sent
\* are, one for one and in order, the buffers that stood at each fragment
\* ".\n\n" with that fragment appended, and the buffer holds the visible
\* fragments since the last of them, the bare paragraph breaks left out.
C22_VisibleFragmentsChunked ==
    \A w \in Workers :
      BetweenItems(w) =>
        LET c == chats(loc[w].out)
            e == Chunked(Consumed(w), [sent |-> <<>>, buf |-> <<>>]) IN
        /\ Len(c) = Len(e.sent)
        /\ \A i \in DOMAIN c : c[i].text = e.sent[i]
        /\ loc[w].output = e.buf

\* A run has sent "Hello" ".\n\n" from its loop and holds "more".
C22_SentenceSentFromLoop ==
    \E w \in Workers :
      /\ BetweenItems(w)
      /\ Len(chats(loc[w].out)) = 1
      /\ chats(loc[w].out)[1].text = <<"Hello", ".", "\n\n">>
      /\ loc[w].output = <<"more">>

\* C22 as the specification states it: a paragraph break that follows a
\* sentence terminator never stays in the buffer.
C22_TerminatorBreakAlwaysFlushes ==
    \A w \in Workers :
      BetweenItems(w) =>
        \A j \in DOMAIN loc[w].output :
          (j > 1 /\ loc[w].output[j] = "\n\n") =>
            loc[w].output[j - 1] \notin {".", "!", "?"}

----------------------------------------------------------------------------
(* Liveness signals *)

\* The chat-activity messages in out.
is_activity(m) == m.kind = ChatActivity
activities(out) == SelectSeq(out, is_activity)

\* The i_am_thinking that opens the run of w is under way.
Opening(w) ==
    /\ pc[w] \in {"IatLock", "IatRead", "IatWrite", "IatSend"}
    /\ loc[w].ret = "Loop"

\* C23: the i_am_thinking that opens a chunker run is through before the
\* run takes an item of its stream, fills its buffer or sends a chat
\* message; while the run is in its loop it has made one call of
\* i_am_thinking for its opening and one per tick of typing_interval, each
\* carrying the activity_seq_no after that of the call before it; and
\* activity_seq_no of a record counts the calls of i_am_thinking since the
\* record was created: it is incremented exactly once per call.
C23_OneSignalPerOpeningAndTick ==
    /\ \A w \in Workers :
         /\ Opening(w) =>
              /\ loc[w].stream = loc[w].generated.items
              /\ loc[w].res = <<>>
              /\ loc[w].output = <<>>
              /\ chats(loc[w].out) = <<>>
              /\ activities(loc[w].out) = <<>>
              /\ loc[w].ticks = 0
         /\ (/\ "generate_stream" \in loc[w].ran
             /\ pc[w] \in {"Loop", "Res", "Flush", "TickPresence"}
             /\ nfail = 0) =>
              LET a == activities(loc[w].out)
                  r == chan[Owner(w)][digest(loc[w].to_did)] IN
              /\ Len(a) = 1 + loc[w].ticks
              /\ \A i \in 1..(Len(a) - 1) : a[i + 1].seq_no = a[i].seq_no + 1
              /\ \A i \in DOMAIN a : a[i].to = loc[w].to_did
              /\ r.activity_seq_no = a[Len(a)].seq_no + 1
    /\ \A o \in Owners : \A h \in DOMAIN chan[o] :
         /\ \A k \in 1..Len(obs[o][h].act) : obs[o][h].act[k] = k - 1
         /\ chan[o][h].activity_seq_no =
              Len(obs[o][h].act) - Cardinality(Reading(o, h, "IatWrite"))

\* A run is in its loop after its opening signal and the signal of one tick.
C23_SignalOnTick ==
    \E w \in Workers :
      /\ pc[w] = "Loop"
      /\ nfail = 0
      /\ loc[w].ticks = 1
      /\ Len(activities(loc[w].out)) = 2
      /\ activities(loc[w].out)[2].seq_no = activities(loc[w].out)[1].seq_no + 1

----------------------------------------------------------------------------
(* The idle timer *)

\* C24: while a chunker run is in its loop no step takes back the time that
\* has passed since the run opened, whether it takes a fragment or a tick;
\* and, the task running while it can, time passing and the select taking
\* its timeout branch when it is ready again and again, every chunker run
\* comes to its end, also on a stream that never yields and on one that
\* yields fragments forever.
C24_ChunkerRunTerminates ==
    /\ [][\A w \in Workers :
            (ChunkerRunning(w) /\ pc[w] # "Flush") =>
              /\ loc'[w].elapsed >= loc[w].elapsed
              /\ loc'[w].elapsed <= TimeoutSecs]_vars
    /\ \A w \in Workers : ChunkerRunning(w) ~> ~ChunkerRunning(w)

\* The run on the stream that yields fragments forever was ended by the
\* timeout.
C24_EndlessStreamTimedOut ==
    \E w \in Workers :
      /\ pc[w] = "Ack"
      /\ loc[w].generated.end = "Forever"
      /\ "timeout" \in loc[w].ran
      /\ chats(loc[w].out) # <<>>
      /\ chats(loc[w].out)[1].text = TimeoutText

----------------------------------------------------------------------------
(* Informational messages *)

Informational == {ChatDelivered, ChatActivity, ProtocolStatus}

\* Task t has an informational message of a known sender in hand.
Informed(t) ==
    /\ loc[t].msg.type \in Informational
    /\ loc[t].msg.from # None

\* C25: while an actor handles a chat-delivered, chat-activity or status
\* message it sends nothing, and the map of its owner changes at most by the
\* record with zero counters that the lazy creation inserts for a sender
\* that has none; a sender that has a record leaves the map as it is.
C25_InformationalOnlyCreatesLazily ==
    [][\A t \in Tasks :
         Informed(t) =>
           LET o == Owner(t)
               f == loc[t].msg.from IN
           /\ loc[t].out = <<>>
           /\ \/ chan'[o] = chan[o]
              \/ /\ pc[t] = "LazyCS"
                 /\ ~has_channel_state(chan[o], digest(f))
                 /\ chan'[o] = insert_channel_state(chan[o], digest(f),
                                                    ChatChannelState(f, digest(f)))]_vars

\* An actor is through with a chat-delivered message of a sender it had not
\* seen: nothing was sent and the sender has a record.
C25_DeliveredFromUnseenParty ==
    \E t \in Tasks :
      /\ pc[t] \in {"Ack", "Done"}
      /\ taken[t] = 1
      /\ loc[t].msg.type = ChatDelivered
      /\ loc[t].out = <<>>
      /\ has_channel_state(chan[Owner(t)], digest(loc[t].msg.from))

\* C25 as the specification states it: handling an informational message
\* sends nothing and leaves the map of the owner unchanged.
C25_InformationalLeavesMapUnchanged ==
    [][\A t \in Tasks :
         Informed(t) => (loc[t].out = <<>> /\ chan'[Owner(t)] = chan[Owner(t)])]_vars

----------------------------------------------------------------------------
(* Messages without a sender *)

\* C26: no actor is ever past its select with a message that has no sender,
\* nothing is ever sent to no one, no map holds a record for no one, and
\* the step that takes a message and leaves the actor in its select (the
\* message dropped) changes no map, takes no mutex and leaves the actor
\* without locals, ready for the next message.
C26_AnonymousMessageDropped ==
    /\ [][\A t \in Tasks :
            (taken'[t] = taken[t] + 1 /\ pc'[t] = "Select") =>
              /\ chan' = chan
              /\ lock' = lock
              /\ loc'[t] = NoLoc]_vars
    /\ [](\A t \in Tasks :
            /\ (pc[t] \notin {"Select", "Unborn"} \cup Activating) =>
                 (loc[t].msg = NoMsg \/ loc[t].msg.from # None)
            /\ \A i \in DOMAIN loc[t].out : loc[t].out[i].to # None
            /\ \A o \in Owners : digest(None) \notin DOMAIN chan[o])

\* An actor has taken two messages, the first without a sender, and is
\* handling the second; no record was made for the first.
C26_NextMessageAfterDrop ==
    \E t \in Tasks :
      /\ taken[t] = 2
      /\ pc[t] = "LazyCS"
      /\ chan[Owner(t)] = EmptyMap
      /\ loc[t].msg.from # None

----------------------------------------------------------------------------
(* Lazy creation *)

\* C27: the critical section of the lazy creation leaves the map of its
\* owner as it is when the sender has a record, and otherwise adds, under
\* the hash of the sender, a record of that sender with both counters 0 and
\* changes no other record; and every record of every map is stored under
\* the hash of its own remote_did, so that a map holds one record per party
\* at most.
C27_LazyCreationIdempotent ==
    /\ [][\A t \in Tasks :
            (pc[t] = "LazyCS" /\ pc'[t] # "LazyCS") =>
              LET o == Owner(t)
                  f == loc[t].msg.from
                  h == digest(f) IN
              IF h \in DOMAIN chan[o]
              THEN chan'[o] = chan[o]
              ELSE /\ DOMAIN chan'[o] = DOMAIN chan[o] \cup {h}
                   /\ \A k \in DOMAIN chan[o] : chan'[o][k] = chan[o][k]
                   /\ chan'[o][h].remote_did = f
                   /\ chan'[o][h].remote_did_hash = h
                   /\ chan'[o][h].seq_no = 0
                   /\ chan'[o][h].activity_seq_no = 0]_vars
    /\ [](\A o \in Owners : \A k \in DOMAIN chan[o] :
            /\ chan[o][k].remote_did_hash = k
            /\ digest(chan[o][k].remote_did) = k)

\* A second message of a party has passed the lazy creation and the record
\* of the party still has the counter its first message left.
C27_SecondMessageKeepsCounters ==
    \E t \in Tasks :
      /\ taken[t] = 2
      /\ pc[t] \notin {"Select", "LazyLock", "LazyCS"}
      /\ loc[t].out = <<>>
      /\ has_channel_state(chan[Owner(t)], digest(loc[t].msg.from))
      /\ chan[Owner(t)][digest(loc[t].msg.from)].seq_no = 1

----------------------------------------------------------------------------
(* Mutexes and network I/O *)

\* Where a task stands between lock().await and the drop of the guard.
CriticalSections ==
    {"SmRead", "SmWrite", "IatRead", "IatWrite", "LazyCS", "HsCS1", "HsCS2",
     "HpCS", "StartCS"}

\* Where a task awaits the transport, the mediator or the backend: the
\* activation, the select, the receipt and the deletion of a message, the
\* sends, send_connection_response, generate_stream and stream.next(),
\* create_model_profiles.
NetworkWaits ==
    Activating \cup
    {"Select", "Receipt", "Ack", "SmSend", "IatSend", "Presence",
     "TickPresence", "HsSend", "HpGen", "Loop", "Profiles"}

Holds(t) == {l \in Locks : lock[l] = t}

\* C28: a task that holds a mutex stands in a critical section, and a task
\* that awaits the transport, the mediator or the backend holds none.
C28_NoLockAcrossNetworkWait ==
    \A t \in Tasks :
      /\ Holds(t) # {} => pc[t] \in CriticalSections
      /\ pc[t] \in NetworkWaits => Holds(t) = {}
      /\ Cardinality(Holds(t)) <= 1

\* The Concierge holds the registry in StartModel while the Model Agent,
\* holding nothing, awaits the stream of the backend.
C28_StreamAwaitedWithoutLock ==
    /\ pc[Concierge] = "StartCS"
    /\ lock[ModelsLock] = Concierge
    /\ pc[Handler] = "Loop"
    /\ Holds(Handler) = {}
    /\ loc[Handler].stream # <<>>

----------------------------------------------------------------------------
(* The Concierge and a Model Agent on the same message *)

\* Both actors are through with the same message of the same party and
\* nothing of the environment has failed.
BothThrough ==
    /\ pc[Concierge] = "Done"
    /\ pc[Handler] = "Ack"
    /\ loc[Handler].msg = Twin(loc[Concierge].msg, wmodel[Handler])
    /\ nfail = 0

\* C29: when the Concierge and a Model Agent are through with the same
\* connection-setup, presence, chat-delivered, chat-activity, status or
\* unknown-tag message of the same party, they have sent the same messages
\* and their maps hold the same records; and they have deleted as many
\* messages at the mediator when both are back in their selects.
C29_SameRepliesAndState ==
    /\ BothThrough =>
         /\ loc[Concierge].out = loc[Handler].out
         /\ chan[ConciergeOwner] = chan[Owner(Handler)]
    /\ (/\ pc[Concierge] = "Select"
        /\ pc[Handler] = "Select"
        /\ taken[Concierge] = taken[Handler]) =>
         acked[Concierge] = acked[Handler]

----------------------------------------------------------------------------
(* Every end of the Concierge's run *)

\* C30: whenever the run of the Concierge ends after it has reached its
\* select, every registered Model Agent whose task has not ended has an
\* Exit in its command channel and the save of the state has been
\* attempted: no error of the StartModel arm or of a handshake lets
\* the Concierge stop with a registered Model Agent left without its Exit
\* or with the state unsaved.
C30_NoEndWithoutExitAndSave ==
    [][(pc'[Concierge] \in Dead /\ pc[Concierge] \notin Dead \cup {"Starting"}) =>
         /\ \A w \in Registered : pc[w] \notin Dead => wcmd'[w] >= 1
         /\ config_json' = <<snap>> \/ (pc[Concierge] = "Write" /\ result' = "Err")]_vars

----------------------------------------------------------------------------
(* The registry and the running Model Agents *)

\* The Model Agents whose task has been spawned and has not ended.
Running == {w \in Workers : pc[w] \notin Dead \cup {"Unborn"}}

\* C31: after any StartModel commands, repeats of a model name included,
\* the registry holds the sender of every Model Agent whose task is still
\* running, and no two running Model Agents are of the same model name.
C31_NoRunningWorkerOrphaned ==
    /\ Running \subseteq Registered
    /\ \A v, w \in Running : wmodel[v] = wmodel[w] => v = w

----------------------------------------------------------------------------
(* The saved state *)

\* C32: once the Concierge has written config.json in its teardown, the
\* channel state of no model changes any more: no counter is incremented,
\* no record is created, no handshake replaces a record.
C32_SavedStateIsFinal ==
    [][(pc[Concierge] = "Stopped" /\ config_json # <<>>) =>
         \A n \in ModelNames : chan'[n] = chan[n]]_vars

----------------------------------------------------------------------------
(* A sequence number per attempt *)

\* C33: every call of send_message increments seq_no of the party's record
\* exactly once, before it packs and sends (the record then holds the number
\* the call took plus one), and the step that packs and sends leaves every
\* record as it is whether it succeeds or fails: seq_no is the number of
\* calls that have taken a number since the record was created.
C33_NumberConsumedPerAttempt ==
    /\ [][\A t \in Tasks :
            /\ (pc[t] = "SmWrite" /\ pc'[t] # "SmWrite") =>
                 /\ pc'[t] = "SmSend"
                 /\ chan'[Owner(t)][digest(loc[t].to_did)].seq_no = loc[t].seq_no + 1
                 /\ chan[Owner(t)][digest(loc[t].to_did)].seq_no = loc[t].seq_no
            /\ (pc[t] = "SmSend" /\ pc'[t] # "SmSend") => chan' = chan]_vars
    /\ [](\A o \in Owners : \A h \in DOMAIN chan[o] :
            Cardinality(Reading(o, h, "SmWrite")) = 0 =>
              chan[o][h].seq_no = Len(obs[o][h].seq))

\* A send_message to a party failed in packing or sending: nothing was sent
\* while the message was handled, and the record counts the attempt.
C33_FailedSendCounted ==
    \E t \in Handlers : \E h \in DOMAIN chan[Owner(t)] :
      /\ pc[t] \in {"Ack", "Done"}
      /\ nfail = 1
      /\ loc[t].out = <<>>
      /\ obs[Owner(t)][h].seq = <<0>>
      /\ chan[Owner(t)][h].seq_no = 1

----------------------------------------------------------------------------
(* Keys and records *)

\* C34: in the map of every owner, the record stored under key k has
\* remote_did_hash = k, and k is the digest of the record's remote_did.
C34_RecordKeyedByItsHash ==
    \A o \in Owners : \A k \in DOMAIN chan[o] :
      /\ chan[o][k].remote_did_hash = k
      /\ k = digest(chan[o][k].remote_did)

\* The map of an owner holds a record made by lazy creation next to one
\* made by a handshake replacement.
C34_LazyAndReplacedRecords ==
    \E o \in Owners : \E d \in RemoteDids : \E n \in ChannelDids :
      /\ {digest(d), digest(n)} \subseteq DOMAIN chan[o]
      /\ chan[o][digest(d)].remote_did = d
      /\ chan[o][digest(n)].remote_did = n

----------------------------------------------------------------------------
(* No deadlock on the mutexes *)

\* The positions at which a task waits for a mutex.
LockWaits ==
    {"SmLock", "IatLock", "LazyLock", "HsLock1", "HsLock2", "HpLock",
     "StartLock", "SaveModels", "SaveModel", "AddLock", "RemoveLock",
     "RemoveModelLock"}

\* C35: with the Concierge looking up and saving, Model Agents sequencing
\* and the configuration being edited at once, the only task that waits for
\* a mutex while it holds one is remove_model, holding the registry and
\* waiting for a model (so no cycle of waiting tasks exists), and no task
\* stays at a wait for a mutex forever: every task is again and again at a
\* position where it waits for none.
C35_NoTaskWaitsForever ==
    /\ [](\A t \in Tasks :
            (pc[t] \in LockWaits /\ Holds(t) # {}) =>
              /\ t = Wizard
              /\ pc[t] = "RemoveModelLock"
              /\ Holds(t) = {ModelsLock})
    /\ \A t \in Tasks : []<>(pc[t] \notin LockWaits)

\* remove_model holds the registry and waits for the mutex of a model that
\* a Model Agent holds for a sequence number, while the Concierge waits for
\* the registry.
C35_ThreeTasksInLine ==
    /\ pc[Wizard] = "RemoveModelLock"
    /\ lock[ModelsLock] = Wizard
    /\ \E w \in Workers :
         /\ lock[loc[Wizard].model_name] = w
         /\ pc[w] \in {"SmRead", "SmWrite"}
    /\ pc[Concierge] \in {"StartLock", "SaveModels"}

----------------------------------------------------------------------------
(* The order of a handshake *)

\* The connection response of the handshake task t is in.
Response(t) == Sent("connection-accepted", loc[t].msg.from, NoSeq, <<>>)

\* C36: in a handshake the connection response is sent before the record is
\* replaced (sending it changes no record), the replacement is followed at
\* once by the call of the greeting to the negotiated DID, and, while the
\* environment does not fail, the response is the only message sent when the
\* record is replaced, the greeting takes sequence number 0 of the new
\* record and leaves it at 1, and the two are all the handshake sends.
C36_ResponseReplaceGreeting ==
    /\ [][\A t \in Tasks :
            /\ (pc[t] = "HsSend" /\ pc'[t] # "HsSend") =>
                 /\ chan' = chan
                 /\ pc'[t] \in {"HsLock2", "Panicked"}
            /\ (pc[t] = "HsCS2" /\ pc'[t] # "HsCS2") =>
                 /\ chats(loc[t].out) = <<>>
                 /\ pc'[t] = "SmLock"
                 /\ loc'[t].text = Greeting
                 /\ loc'[t].to_did = loc[t].new_did]_vars
    /\ [](\A t \in Tasks :
            (loc[t].msg.type = ConnectionSetup /\ loc[t].new_did # None /\ nfail = 0) =>
              LET new == digest(loc[t].new_did)
                  greeting == Sent(ChatMessageT, loc[t].new_did, 0, Greeting) IN
              /\ pc[t] = "HsSend" => loc[t].out = <<>>
              /\ pc[t] \in {"HsLock2", "HsCS2", "SmLock", "SmRead", "SmWrite", "SmSend"} =>
                   loc[t].out = <<Response(t)>>
              /\ pc[t] \in {"SmWrite", "SmSend"} =>
                   loc[t].seq_no = 0 /\ loc[t].to_did = loc[t].new_did
              /\ pc[t] = "SmSend" => chan[Owner(t)][new].seq_no = 1
              /\ pc[t] \in {"Ack", "Done"} =>
                   /\ loc[t].out = <<Response(t), greeting>>
                   /\ chan[Owner(t)][new].seq_no = 1)

----------------------------------------------------------------------------
(* The delivered-receipt *)

is_receipt(m) == m.kind = ChatDelivered
receipts(out) == SelectSeq(out, is_receipt)

\* C37: a Model Agent that dispatches a chat message with a sender to
\* handle_message sends the chat-delivered receipt to the sender as the
\* first step of the handling (loc.handled is set by it), whether the body
\* parses and whether it carries attachments: nothing is sent or run before
\* it, the step changes no record, every other message of the handling
\* comes after it, and it is sent exactly once (not at all only when its
\* packing or sending fails); no other type of message is acknowledged so.
C37_ReceiptFirstAndOnce ==
    /\ [][\A w \in Workers :
            (/\ pc[w] = "LazyCS" /\ pc'[w] # "LazyCS"
             /\ loc[w].msg.type = ChatMessageT
             /\ loc[w].msg.to = ProfileDid(w)) => pc'[w] = "Receipt"]_vars
    /\ [][\A w \in Workers :
            (pc[w] = "Receipt" /\ pc'[w] # "Receipt") =>
              /\ loc[w].out = <<>> /\ loc[w].ran = {}
              /\ chan' = chan /\ obs' = obs
              /\ \/ loc'[w].out = <<Receipt(loc[w].msg)>>
                 \/ loc'[w].out = <<>> /\ nfail' = nfail + 1]_vars
    /\ [](\A w \in Workers :
            LET m == loc[w].msg
                out == loc[w].out IN
            IF m.type = ChatMessageT /\ loc[w].handled # None
            THEN /\ Len(receipts(out)) <= 1
                 /\ nfail = 0 => Len(out) >= 1 /\ out[1] = Receipt(m)
                 /\ \A i \in 2..Len(out) : ~is_receipt(out[i])
            ELSE receipts(out) = <<>>)

\* A chat message whose body does not parse is through: the receipt is all
\* that was sent.
C37_UnparsableAcknowledged ==
    \E w \in Workers :
      /\ pc[w] = "Ack"
      /\ loc[w].msg.type = ChatMessageT
      /\ ~loc[w].msg.parses
      /\ loc[w].out = <<Receipt(loc[w].msg)>>

----------------------------------------------------------------------------
(* Messages to a DID that was not activated *)

\* The Model Agent w holds a message of a sender that is addressed to a DID
\* it has no activated profile for.
Foreign(w) ==
    /\ loc[w].msg.from # None
    /\ loc[w].msg.to \notin {None, ProfileDid(w)}

\* C38: a message to a DID the Model Agent did not activate never gets past
\* the lazy creation: no handler runs for it, nothing is sent, it is not
\* deleted at the mediator, and the map changes at most by the record with
\* zero counters that the lazy creation inserts for a sender that has none;
\* the Model Agent is back in its select right after.
C38_ForeignOnlyCreatesLazily ==
    [][\A w \in Workers :
         Foreign(w) =>
           LET o == Owner(w)
               f == loc[w].msg.from IN
           /\ pc[w] \in {"LazyLock", "LazyCS"}
           /\ pc'[w] \in {pc[w], "LazyCS", "Select"}
           /\ loc[w].out = <<>> /\ loc[w].ran = {} /\ loc[w].handled = None
           /\ acked'[w] = acked[w]
           /\ \/ chan'[o] = chan[o]
              \/ /\ pc[w] = "LazyCS"
                 /\ ~has_channel_state(chan[o], digest(f))
                 /\ chan'[o] = insert_channel_state(chan[o], digest(f),
                                                    ChatChannelState(f, digest(f)))]_vars

\* The first message a Model Agent took was one of a sender to a foreign
\* DID: it is back in its select, nothing was deleted at the mediator, and
\* the sender has a record.
C38_ForeignFromUnseenParty ==
    \E w \in Workers :
      /\ pc[w] = "Select"
      /\ taken[w] = 1
      /\ acked[w] = 0
      /\ loc[w] = NoLoc
      /\ DOMAIN chan[Owner(w)] = {digest("p1")}

\* C38 as the specification states it: a message to a foreign DID is not
\* dispatched, sends nothing and leaves the map unchanged.
C38_ForeignLeavesMapUnchanged ==
    [][\A w \in Workers :
         Foreign(w) =>
           /\ pc'[w] \in {pc[w], "LazyCS", "Select"}
           /\ loc[w].out = <<>>
           /\ chan'[Owner(w)] = chan[Owner(w)]]_vars

----------------------------------------------------------------------------
(* What a send changes *)

\* The positions of send_message and of i_am_thinking.
Sending == {"SmLock", "SmRead", "SmWrite", "SmSend"}
Signalling == {"IatLock", "IatRead", "IatWrite", "IatSend"}

\* C39: of all the steps of a send_message only the increment changes channel
\* state, and it changes seq_no of the record of the party the message goes
\* to and nothing else; of all the steps of an i_am_thinking only the
\* increment does, and it changes activity_seq_no of that party's record and
\* nothing else: the other counter, the records of other parties and of
\* other owners and the keys of every map are as before.
C39_SendChangesOneCounter ==
    [][\A t \in Tasks :
         LET o == Owner(t)
             h == digest(loc[t].to_did) IN
         /\ (pc[t] \in Sending /\ pc'[t] # pc[t]) =>
              chan' = IF pc[t] = "SmWrite"
                      THEN [chan EXCEPT ![o][h].seq_no = @ + 1]
                      ELSE chan
         /\ (pc[t] \in Signalling /\ pc'[t] # pc[t]) =>
              chan' = IF pc[t] = "IatWrite"
                      THEN [chan EXCEPT ![o][h].activity_seq_no = @ + 1]
                      ELSE chan]_vars

\* A party has been sent a liveness signal and a chat message while another
\* party's record stands beside it with both counters still 0.
C39_OtherPartyUntouched ==
    \E o \in Owners : \E f, g \in RemoteDids :
      /\ f # g
      /\ {digest(f), digest(g)} \subseteq DOMAIN chan[o]
      /\ chan[o][digest(f)].seq_no >= 1
      /\ chan[o][digest(f)].activity_seq_no >= 1
      /\ chan[o][digest(g)].seq_no = 0
      /\ chan[o][digest(g)].activity_seq_no = 0

====
